---- MODULE Spec2Model ----
(***************************************************************************)
(* The ingestion pipeline of sludgewire (app/repo.py, app/ingest_f3x.py,   *)
(* app/ingest_ie.py, app/backfill.py, scripts/ingest_job.py, app/api.py)   *)
(* over a PostgreSQL store reached through SQLAlchemy sessions.            *)
(*                                                                         *)
(* The store is modelled at READ COMMITTED: every session works in one     *)
(* transaction; what it wrote is pending until session.commit() and is     *)
(* discarded by rollback / close / a dead process.  An INSERT of a primary *)
(* key that another open transaction has inserted waits for that           *)
(* transaction to end; an INSERT of a committed key raises IntegrityError. *)
(* Timestamps (updated_at, first_seen) are not modelled.                   *)
(***************************************************************************)
EXTENDS Integers, Sequences, FiniteSets, TLC

\* ------------------------------------------------------------------ bounds
MaxFiling == 2
MaxLine == 2
MaxCalls == 3
MaxItems == 3
MaxCap == 2
MaxPages == 2

FilingIds == 1..MaxFiling
RawLines == 1..MaxLine
Runs == {"r1", "r2"}

\* source_feed values: run_f3x uses "F3X", run_ie_schedule_e the feed URL,
\* backfill_date_f3x "BACKFILL"
IEFeeds == <<"IE1", "IE2">>
IEFeedSet == {IEFeeds[i] : i \in 1..Len(IEFeeds)}
Sources == {"F3X", "BACKFILL"} \cup IEFeedSet
Keys == FilingIds \X Sources

NULL == "NULL"
NoSize == 0
OverSize == 120

\* col_a_total_receipts of a filing, in thousands; NoTotal: the header has none
NoTotal == -1
UnknownTotal == -2
Totals == {NoTotal, 40, 60}
\* settings.receipts_threshold (RECEIPTS_THRESHOLD, default 50000), in thousands
receipts_threshold == 50

\* ------------------------------------------------------------------ rows
\* IngestionTask row; status "absent" stands for "no row with this key"
NoRow == [status |-> "absent", failed_step |-> NULL, error_message |-> NULL,
          skip_reason |-> NULL, file_size_mb |-> NoSize]

\* the row claim_filing adds: IngestionTask(filing_id, source_feed, status="claimed")
ClaimedRow == [status |-> "claimed", failed_step |-> NULL, error_message |-> NULL,
               skip_reason |-> NULL, file_size_mb |-> NoSize]

\* a pending (uncommitted) write of a session on one key
Untouched == [row |-> NoRow, ins |-> FALSE, dirty |-> FALSE]

\* IEScheduleE row: event_id is the key; filing_id and the remaining fields
\* (abstracted to the writer that built them) are the body
NoEvent == [filing_id |-> 0, fields |-> "absent"]
NoPendingEv == [row |-> NoEvent, dirty |-> FALSE]

\* sha256_hex(f"{filing_id}|{raw_line}"): injective in the pair (no collisions)
EventIds == FilingIds \X RawLines
sha256_hex(filing_id, raw_line) == <<filing_id, raw_line>>

\* FilingF3X row: total_receipts, threshold_flag and raw_meta (abstracted to
\* the writer that supplied it); total UnknownTotal stands for "no row"
NoFiling == [total |-> UnknownTotal, flag |-> FALSE, meta |-> "absent"]
NoPendingFiling == [row |-> NoFiling, dirty |-> FALSE]

VARIABLES
    tasks,      \* committed ingestion_tasks: [Keys -> row]
    events,     \* committed ie_schedule_e: [EventIds -> row]
    filings,    \* committed filings_f3x: [FilingIds -> row]
    sess,       \* [Runs -> the session's pending writes on tasks, events, filings]
    run,        \* [Runs -> control state of the run using that session]
    text,       \* what the .fec file of each filing holds, once it has been read
    dl,         \* how often each (filing, ingestion source) was downloaded
    jobs,       \* backfill_jobs of one target date: [{"3x", "e"} -> row], committed
    ev,         \* the call that completed in the last step, with its return value
    ncalls,     \* calls of app/repo.py made so far by the callers of SpecLedger
    cool,       \* the process memory of app/api.py: cooldown time, lock, request threads
    loop        \* the local variables of run_job in scripts/ingest_job.py

vars == <<tasks, events, filings, sess, run, text, dl, jobs, ev, ncalls, cool, loop>>

\* the variables the callers of SpecLedger leave alone
pipe == <<filings, text, dl, jobs, cool, loop>>

\* ids, line: the filing_ids and the return value of a reset_failed_tasks
\* call; ft, stale, res: the job a trigger_backfill request was for, whether
\* it found the job running for more than 10 minutes, whether it started a run;
\* total, meta: the total_receipts and raw_meta an upsert_f3x call was given;
\* trail: the statuses the step wrote, in order, to the task (fid, src) of
\* session r; pages: the page count a backfill run read; body, api: what
\* became of the download and parse of a backfilled filing, and the
\* total_receipts the API gave for it; arg, out: the arguments and the yielded
\* records of an extract_schedule_e_best_effort call
NoEv == [op |-> "none", r |-> "none", fid |-> 0, src |-> NULL, line |-> 0,
         res |-> FALSE, raised |-> FALSE, ins |-> FALSE, ids |-> {},
         ft |-> NULL, stale |-> FALSE, total |-> UnknownTotal, meta |-> NULL,
         trail |-> <<>>, pages |-> 0, body |-> NULL, api |-> UnknownTotal,
         arg |-> <<>>, out |-> <<>>]

\* a step of session r that wrote the statuses of trail to the task k
StatusEv(r, k, trail) ==
    [NoEv EXCEPT !.op = "status", !.r = r, !.fid = k[1], !.src = k[2], !.trail = trail]

\* a completed upsert_f3x call
UpsertEv(r, f, total_receipts, raw_meta) ==
    [NoEv EXCEPT !.op = "upsert", !.r = r, !.fid = f, !.total = total_receipts,
                 !.meta = raw_meta]

\* a completed claim_filing call; ins: the call passed the existence check and
\* reached the INSERT
ClaimEv(r, k, out, ins) ==
    [NoEv EXCEPT !.op = "claim", !.r = r, !.fid = k[1], !.src = k[2],
                 !.res = out.ret, !.raised = out.raised, !.ins = ins,
                 !.trail = IF out.ret THEN <<"claimed">> ELSE <<>>]

\* a completed insert_ie_event call
EventEv(r, e, out, ins) ==
    [NoEv EXCEPT !.op = "event", !.r = r, !.fid = e[1], !.line = e[2],
                 !.res = out.ret, !.raised = out.raised, !.ins = ins]

\* fresh Session(engine): nothing pending
NewSession == [tasks |-> [k \in Keys |-> Untouched],
               events |-> [e \in EventIds |-> NoPendingEv],
               filings |-> [f \in FilingIds |-> NoPendingFiling]]

\* a run that is not running: no entry point has opened a session for it
Idle == [kind |-> "none", pc |-> "idle", entry |-> "none", feed |-> <<>>, idx |-> 0,
         url |-> 0, fid |-> 0, src |-> NULL, line |-> 0, fields |-> NULL,
         lines |-> <<>>, lidx |-> 0, new |-> 0, cap |-> 0, failed |-> 0, skipped |-> 0,
         nev |-> 0, seen |-> {}, raised |-> FALSE, total |-> UnknownTotal,
         broken |-> FALSE, mine |-> {}]

\* a run whose entry point has returned and closed its session
Done == [Idle EXCEPT !.pc = "done"]

\* the .fec text of a filing: its header total, and its Schedule E lines
\* (NoLines until the file has been read for them)
NoLines == <<0>>
NoText == [total |-> UnknownTotal, se |-> NoLines]

\* the ingestion sources a download is counted under; backfill_date_e claims
\* nothing and has no source_feed
DlSources == Sources \cup {"BACKFILL_E"}

\* ------------------------------------------------------------- the session
\* session.get(IngestionTask, key): the session's own pending row, else the
\* committed row
GetTask(s, r, k) == IF s[r].tasks[k].dirty THEN s[r].tasks[k].row ELSE tasks[k]

GetEvent(s, r, e) == IF s[r].events[e].dirty THEN s[r].events[e].row ELSE events[e]

\* another open transaction holds an uncommitted write on the key
TaskLocked(s, r, k) == \E t \in Runs \ {r} : s[t].tasks[k].dirty

EventLocked(s, r, e) == \E t \in Runs \ {r} : s[t].events[e].dirty

\* the rows of key k that exist anywhere in the store, committed or pending insert
TaskRowCount(k) ==
    (IF tasks[k] # NoRow THEN 1 ELSE 0)
    + Cardinality({t \in Runs : sess[t].tasks[k].dirty /\ sess[t].tasks[k].ins})

EventRowCount(e) ==
    (IF events[e] # NoEvent THEN 1 ELSE 0)
    + Cardinality({t \in Runs : sess[t].events[e].dirty})

\* ------------------------------------------------------------ app/repo.py
\* the runs blocked on a lock: an INSERT waiting for the transaction that
\* holds the key to end
WaitsFor(s, r) ==
    IF run[r].pc = "claim_ins"
    THEN {t \in Runs \ {r} : s[t].tasks[<<run[r].fid, run[r].src>>].dirty}
    ELSE IF run[r].pc = "event_ins"
    THEN {t \in Runs \ {r} : s[t].events[sha256_hex(run[r].fid, run[r].line)].dirty}
    ELSE IF run[r].pc = "upsert_ins"
    THEN {t \in Runs \ {r} : s[t].filings[run[r].fid].dirty}
    ELSE {}

\* PostgreSQL aborts the statement of a transaction caught in a lock cycle
Deadlocked(s, r) == \E t \in WaitsFor(s, r) : r \in WaitsFor(s, t)

\* claim_filing, lines 46-48: existing = session.get(...); if existing: return False
claim_filing_existing(s, r, k) == GetTask(s, r, k) # NoRow

\* mutant: the key is filing_id alone, as in seen_filings
TaskInsertFails_ByFilingId(s, r, k) ==
    \E src \in Sources : tasks[<<k[1], src>>] # NoRow \/ s[r].tasks[<<k[1], src>>].dirty

\* the INSERT flushed when the SAVEPOINT block of lines 51-56 exits:
\* a key that is already in the table violates the primary key
TaskInsertFails(s, r, k) == tasks[k] # NoRow \/ s[r].tasks[k].dirty

\* mutant: an upsert, which overwrites the row it finds and reports success
claim_filing_insert_Upsert(s, r, k) ==
    [sess |-> [s EXCEPT ![r].tasks[k] =
                  [row |-> ClaimedRow, ins |-> tasks[k] = NoRow, dirty |-> TRUE]],
     ret |-> TRUE, raised |-> FALSE]

\* mutant: no try/except around the SAVEPOINT: the IntegrityError escapes
claim_filing_insert_NoExcept(s, r, k) ==
    IF TaskInsertFails(s, r, k) \/ Deadlocked(s, r)
    THEN [sess |-> s, ret |-> FALSE, raised |-> TRUE]
    ELSE [sess |-> [s EXCEPT ![r].tasks[k] =
                        [row |-> ClaimedRow, ins |-> TRUE, dirty |-> TRUE]],
          ret |-> TRUE, raised |-> FALSE]

\* claim_filing, lines 50-59: the insert in its SAVEPOINT.  A failed insert
\* rolls back to the SAVEPOINT only and is caught: the call returns False.
claim_filing_insert(s, r, k) ==
    IF TaskInsertFails(s, r, k) \/ Deadlocked(s, r)
    THEN [sess |-> s, ret |-> FALSE, raised |-> FALSE]
    ELSE [sess |-> [s EXCEPT ![r].tasks[k] =
                        [row |-> ClaimedRow, ins |-> TRUE, dirty |-> TRUE]],
          ret |-> TRUE, raised |-> FALSE]

\* mutant: a missing row is created with the status
update_filing_status_Upsert(s, r, k, status, failed_step, error_message) ==
    LET row == GetTask(s, r, k) IN
    [s EXCEPT ![r].tasks[k] =
        [row |-> [(IF row = NoRow THEN ClaimedRow ELSE row) EXCEPT
                    !.status = status,
                    !.failed_step = IF failed_step # NULL THEN failed_step ELSE @,
                    !.error_message = IF error_message # NULL THEN error_message ELSE @],
         ins |-> row = NoRow \/ (s[r].tasks[k].dirty /\ s[r].tasks[k].ins),
         dirty |-> TRUE]]

\* update_filing_status, lines 62-79: a no-op when the row is missing;
\* failed_step / error_message are written only when given
update_filing_status(s, r, k, status, failed_step, error_message) ==
    LET row == GetTask(s, r, k) IN
    IF row = NoRow THEN s
    ELSE [s EXCEPT ![r].tasks[k] =
            [row |-> [row EXCEPT
                        !.status = status,
                        !.failed_step = IF failed_step # NULL THEN failed_step ELSE @,
                        !.error_message = IF error_message # NULL THEN error_message ELSE @],
             ins |-> s[r].tasks[k].dirty /\ s[r].tasks[k].ins,
             dirty |-> TRUE]]

\* record_skipped_filing, lines 82-97
record_skipped_filing(s, r, k, reason, file_size_mb) ==
    LET row == GetTask(s, r, k) IN
    IF row = NoRow THEN s
    ELSE [s EXCEPT ![r].tasks[k] =
            [row |-> [row EXCEPT !.skip_reason = reason, !.file_size_mb = file_size_mb],
             ins |-> s[r].tasks[k].dirty /\ s[r].tasks[k].ins,
             dirty |-> TRUE]]

\* mutant: every task that is not ingested is selected
FailedKeys_NotIngested(s, r, filing_ids) ==
    {k \in Keys : GetTask(s, r, k).status \in {"failed", "skipped"} /\ k[1] \in filing_ids}

\* reset_failed_tasks, lines 129-148: the rows the SELECT returns
FailedKeys(s, r, filing_ids) ==
    {k \in Keys : GetTask(s, r, k).status = "failed" /\ k[1] \in filing_ids}

\* mutant: the filter on filing_ids is dropped
reset_failed_tasks_All(s, r, filing_ids) ==
    [s EXCEPT ![r].tasks = [k \in Keys |->
        IF k \in FailedKeys(s, r, FilingIds)
        THEN [row |-> [GetTask(s, r, k) EXCEPT !.status = "claimed",
                          !.failed_step = NULL, !.error_message = NULL],
              ins |-> s[r].tasks[k].dirty /\ s[r].tasks[k].ins,
              dirty |-> TRUE]
        ELSE s[r].tasks[k]]]

reset_failed_tasks(s, r, filing_ids) ==
    [s EXCEPT ![r].tasks = [k \in Keys |->
        IF k \in FailedKeys(s, r, filing_ids)
        THEN [row |-> [GetTask(s, r, k) EXCEPT !.status = "claimed",
                          !.failed_step = NULL, !.error_message = NULL],
              ins |-> s[r].tasks[k].dirty /\ s[r].tasks[k].ins,
              dirty |-> TRUE]
        ELSE s[r].tasks[k]]]

\* insert_ie_event, lines 212-214
insert_ie_event_existing(s, r, e) == GetEvent(s, r, e) # NoEvent

EventInsertFails(s, r, e) == events[e] # NoEvent \/ s[r].events[e].dirty

\* mutant: session.merge(event): the stored row is overwritten
insert_ie_event_insert_Merge(s, r, e, row) ==
    [sess |-> [s EXCEPT ![r].events[e] = [row |-> row, dirty |-> TRUE]],
     ret |-> TRUE, raised |-> FALSE]

\* mutant: no try/except around the SAVEPOINT: the IntegrityError escapes
insert_ie_event_insert_NoExcept(s, r, e, row) ==
    IF EventInsertFails(s, r, e) \/ Deadlocked(s, r)
    THEN [sess |-> s, ret |-> FALSE, raised |-> TRUE]
    ELSE [sess |-> [s EXCEPT ![r].events[e] = [row |-> row, dirty |-> TRUE]],
          ret |-> TRUE, raised |-> FALSE]

\* insert_ie_event, lines 215-220
insert_ie_event_insert(s, r, e, row) ==
    IF EventInsertFails(s, r, e) \/ Deadlocked(s, r)
    THEN [sess |-> s, ret |-> FALSE, raised |-> FALSE]
    ELSE [sess |-> [s EXCEPT ![r].events[e] = [row |-> row, dirty |-> TRUE]],
          ret |-> TRUE, raised |-> FALSE]

\* session.commit(): the pending writes become the committed rows
CommittedTasks(s, r) ==
    [k \in Keys |-> IF s[r].tasks[k].dirty THEN s[r].tasks[k].row ELSE tasks[k]]

CommittedEvents(s, r) ==
    [e \in EventIds |-> IF s[r].events[e].dirty THEN s[r].events[e].row ELSE events[e]]

CommittedFilings(s, r) ==
    [f \in FilingIds |-> IF s[r].filings[f].dirty THEN s[r].filings[f].row ELSE filings[f]]

\* upsert_f3x, lines 151-204: session.get, then insert or overwrite; raw_meta
\* is overwritten only when given; session.flush() sends the statement
GetFiling(s, r, f) == IF s[r].filings[f].dirty THEN s[r].filings[f].row ELSE filings[f]

\* upsert_f3x, lines 167-170: row = session.get(FilingF3X, filing_id)
upsert_f3x_existing(s, r, f) == GetFiling(s, r, f) # NoFiling

\* upsert_f3x, lines 171-187 and 204: the INSERT of a row the session did not
\* see fails when another transaction has committed the key meanwhile; the
\* call is not in a SAVEPOINT and has no except: IntegrityError leaves it
FilingInsertFails(s, r, f) == filings[f] # NoFiling

\* mutant: an overwrite keeps the flag the row had
upsert_f3x_KeepFlag(s, r, f, total_receipts, threshold_flag, raw_meta) ==
    LET row == GetFiling(s, r, f) IN
    [s EXCEPT ![r].filings[f] =
        [row |-> [total |-> total_receipts,
                  flag |-> IF row = NoFiling THEN threshold_flag ELSE row.flag,
                  meta |-> IF row = NoFiling \/ raw_meta # NULL THEN raw_meta
                           ELSE row.meta],
         dirty |-> TRUE]]

upsert_f3x(s, r, f, total_receipts, threshold_flag, raw_meta) ==
    LET row == GetFiling(s, r, f) IN
    [s EXCEPT ![r].filings[f] =
        [row |-> [total |-> total_receipts, flag |-> threshold_flag,
                  meta |-> IF row = NoFiling \/ raw_meta # NULL THEN raw_meta
                           ELSE row.meta],
         dirty |-> TRUE]]

FilingLocked(s, r, f) == \E t \in Runs \ {r} : s[t].filings[f].dirty

\* --------------------------------------------- callers of app/repo.py
\* Sessions that call the functions of app/repo.py in any order, as the
\* tests of tests/test_ingestion.py do, on two sources and with two
\* different bodies for an event.
LedgerKeys == {<<1, "F3X">>, <<1, "IE1">>, <<2, "F3X">>}
LedgerEvents == {sha256_hex(1, 1), sha256_hex(2, 1)}
LedgerResets == {FilingIds, {1}}
EventFields == {"feed", "backfill"}

\* the (status, failed_step, error_message) triples update_filing_status is
\* called with in app/ingest_f3x.py and app/ingest_ie.py
StatusCalls ==
    {<<"downloading", NULL, NULL>>, <<"downloaded", NULL, NULL>>,
     <<"parsing", NULL, NULL>>, <<"ingested", NULL, NULL>>,
     <<"skipped", NULL, NULL>>, <<"failed", NULL, NULL>>,
     <<"failed", "downloading", "error">>, <<"failed", "parsing", "error">>}

\* _maybe_run_ingestion's state in process memory (api.py lines 39-42 and
\* 1199-1233).  last: _last_ingestion_time, NoTime for None; lock: the holder
\* of _ingestion_lock; clock: the time in minutes; pc, now: where each
\* request thread is in the function and the time it read; started: the
\* request times of the calls that started a background pass, in order
INGESTION_COOLDOWN_MINUTES == 5
MaxClock == 6
NoTime == -1
Threads == {"t1", "t2"}
NoCool == [last |-> NoTime, lock |-> "free", clock |-> 0,
           pc |-> [t \in Threads |-> "idle"], now |-> [t \in Threads |-> 0],
           started |-> <<>>]

\* run_job's local variables (scripts/ingest_job.py lines 47-51): pc is where
\* the job is ("idle" before it starts, "loop" at the head of the while loop,
\* "alert" after the loop, "finished" after "Job finished successfully",
\* "TypeError" when an exception left run_job); total_ie_filings, which is only
\* logged, is left out
MAX_ITERATIONS == 50
NoLoop == [pc |-> "idle", iteration |-> 0, total_f3x |-> 0, total_ie_events |-> 0]

\* the job of one target date and filing type (BackfillJob row: status,
\* filings_found, whether completed_at is set, error_message); the commits of
\* get_or_create_backfill_job and of the status changes make it visible at
\* once; status "absent" stands for "no row".  rows counts the rows of the
\* key: the table has a surrogate primary key and no unique constraint on
\* (target_date, filing_type); the fields are those of the row that the
\* select of the key returns first
NoJob == [status |-> "absent", found |-> 0, completed_at |-> FALSE,
          error_message |-> NULL, rows |-> 0]

Init ==
    /\ tasks = [k \in Keys |-> NoRow]
    /\ events = [e \in EventIds |-> NoEvent]
    /\ filings = [f \in FilingIds |-> NoFiling]
    /\ sess = [r \in Runs |-> NewSession]
    /\ run = [r \in Runs |-> Idle]
    /\ text = [f \in FilingIds |-> NoText]
    /\ dl = [k \in FilingIds \X DlSources |-> 0]
    /\ jobs = [ft \in {"3x", "e"} |-> NoJob]
    /\ ev = NoEv
    /\ ncalls = 0
    /\ cool = NoCool
    /\ loop = NoLoop

\* claim_filing up to the existence check (lines 46-48)
LClaim(r, k) ==
    /\ run[r].pc = "idle"
    /\ ncalls < MaxCalls
    /\ ncalls' = ncalls + 1
    /\ IF claim_filing_existing(sess, r, k)
       THEN /\ ev' = ClaimEv(r, k, [ret |-> FALSE, raised |-> FALSE], FALSE)
            /\ UNCHANGED run
       ELSE /\ run' = [run EXCEPT ![r] = [Idle EXCEPT !.kind = "caller",
                          !.pc = "claim_ins", !.fid = k[1], !.src = k[2]]]
            /\ ev' = NoEv
    /\ UNCHANGED <<tasks, events, sess, pipe>>

\* claim_filing from the insert on (lines 50-59); the INSERT waits while
\* another open transaction holds the key
LClaimInsert(r) ==
    /\ UNCHANGED ncalls
    /\ run[r].kind = "caller" /\ run[r].pc = "claim_ins"
    /\ LET k == <<run[r].fid, run[r].src>>
           out == claim_filing_insert(sess, r, k)
       IN /\ ~TaskLocked(sess, r, k) \/ Deadlocked(sess, r)
          /\ sess' = out.sess
          /\ ev' = ClaimEv(r, k, out, TRUE)
          /\ run' = [run EXCEPT ![r] = Idle]
    /\ UNCHANGED <<tasks, events, pipe>>

\* the UPDATE of a row waits for a transaction that holds it; a call that
\* finds no row sends no statement
LUpdateStatus(r, k, c) ==
    /\ run[r].pc = "idle"
    /\ ncalls < MaxCalls
    /\ ncalls' = ncalls + 1
    /\ GetTask(sess, r, k) # NoRow => ~TaskLocked(sess, r, k)
    /\ sess' = update_filing_status(sess, r, k, c[1], c[2], c[3])
    /\ ev' = [NoEv EXCEPT !.op = "update", !.r = r, !.fid = k[1], !.src = k[2],
                 !.trail = IF GetTask(sess, r, k) # NoRow THEN <<c[1]>> ELSE <<>>]
    /\ UNCHANGED <<tasks, events, run, pipe>>

LRecordSkipped(r, k) ==
    /\ run[r].pc = "idle"
    /\ ncalls < MaxCalls
    /\ ncalls' = ncalls + 1
    /\ GetTask(sess, r, k) # NoRow => ~TaskLocked(sess, r, k)
    /\ sess' = record_skipped_filing(sess, r, k, "too_large", OverSize)
    /\ ev' = [NoEv EXCEPT !.op = "skip", !.r = r, !.fid = k[1], !.src = k[2]]
    /\ UNCHANGED <<tasks, events, run, pipe>>

LResetFailed(r, ids) ==
    /\ run[r].pc = "idle"
    /\ ncalls < MaxCalls
    /\ ncalls' = ncalls + 1
    /\ \A k \in FailedKeys(sess, r, ids) : ~TaskLocked(sess, r, k)
    /\ sess' = reset_failed_tasks(sess, r, ids)
    /\ ev' = [NoEv EXCEPT !.op = "reset", !.r = r, !.ids = ids,
                 !.line = Cardinality(FailedKeys(sess, r, ids))]
    /\ UNCHANGED <<tasks, events, run, pipe>>

\* insert_ie_event up to the existence check (lines 212-214)
LInsertEvent(r, e, fields) ==
    /\ run[r].pc = "idle"
    /\ ncalls < MaxCalls
    /\ ncalls' = ncalls + 1
    /\ IF insert_ie_event_existing(sess, r, e)
       THEN /\ ev' = EventEv(r, e, [ret |-> FALSE, raised |-> FALSE], FALSE)
            /\ UNCHANGED run
       ELSE /\ run' = [run EXCEPT ![r] = [Idle EXCEPT !.kind = "caller",
                          !.pc = "event_ins", !.fid = e[1], !.line = e[2],
                          !.fields = fields]]
            /\ ev' = NoEv
    /\ UNCHANGED <<tasks, events, sess, pipe>>

\* insert_ie_event from the insert on (lines 215-220)
LInsertEventInsert(r) ==
    /\ UNCHANGED ncalls
    /\ run[r].kind = "caller" /\ run[r].pc = "event_ins"
    /\ LET e == sha256_hex(run[r].fid, run[r].line)
           out == insert_ie_event_insert(sess, r, e,
                      [filing_id |-> run[r].fid, fields |-> run[r].fields])
       IN /\ ~EventLocked(sess, r, e) \/ Deadlocked(sess, r)
          /\ sess' = out.sess
          /\ ev' = EventEv(r, e, out, TRUE)
          /\ run' = [run EXCEPT ![r] = Idle]
    /\ UNCHANGED <<tasks, events, pipe>>

\* session.commit()
LCommit(r) ==
    /\ run[r].pc = "idle"
    /\ sess[r] # NewSession
    /\ tasks' = CommittedTasks(sess, r)
    /\ events' = CommittedEvents(sess, r)
    /\ sess' = [sess EXCEPT ![r] = NewSession]
    /\ ev' = NoEv
    /\ UNCHANGED <<run, ncalls, pipe>>

\* session.rollback(), session.close() without a commit, or the process dying:
\* the transaction's writes are discarded
LRollback(r) ==
    /\ run[r].kind \in {"none", "caller"}
    /\ sess[r] # NewSession \/ run[r] # Idle
    /\ sess' = [sess EXCEPT ![r] = NewSession]
    /\ run' = [run EXCEPT ![r] = Idle]
    /\ ev' = NoEv
    /\ UNCHANGED <<tasks, events, ncalls, pipe>>

NextLedger ==
    \E r \in Runs :
        \/ \E k \in LedgerKeys : LClaim(r, k)
        \/ LClaimInsert(r)
        \/ \E k \in LedgerKeys, c \in StatusCalls : LUpdateStatus(r, k, c)
        \/ \E k \in LedgerKeys : LRecordSkipped(r, k)
        \/ \E ids \in LedgerResets : LResetFailed(r, ids)
        \/ \E e \in LedgerEvents, fields \in EventFields : LInsertEvent(r, e, fields)
        \/ LInsertEventInsert(r)
        \/ LCommit(r)
        \/ LRollback(r)

SpecLedger == Init /\ [][NextLedger]_vars

\* ------------------------------------------------------ feed passes
\* an RSSItem: the filing id infer_filing_id finds (0: none), and where
\* pub_date_utc falls ("none": the item has no pubDate)
FeedItems == [fid : 0..MaxFiling, day : {"today", "old", "none"}]

RECURSIVE SeqsUpTo(_, _)
SeqsUpTo(S, n) ==
    IF n = 0 THEN {<<>>}
    ELSE LET shorter == SeqsUpTo(S, n - 1)
         IN shorter \cup {Append(q, x) : q \in {p \in shorter : Len(p) = n - 1}, x \in S}

\* what fetch_rss_items may return
Feeds == SeqsUpTo(FeedItems, MaxItems)

\* what extract_schedule_e_best_effort may yield: the raw lines of a filing
SELines == SeqsUpTo(RawLines, MaxLine)

\* who calls a pass: the tests of tests/test_ingestion.py call one pass on a
\* session they close uncommitted; scripts/ingest_job.py run_job, app/api.py
\* cron_check_new and the thread of _maybe_run_ingestion run run_f3x and then
\* run_ie_schedule_e on one session
Entries == {"test", "job", "cron", "ui"}

\* mutant: an item from before today is passed over, not a stop
ItemGuard_SkipOld(item, new, cap) ==
    IF item.day = "old" THEN "continue"
    ELSE IF new >= cap THEN "break"
    ELSE IF item.fid = 0 THEN "continue"
    ELSE "claim"

\* mutant: the cap test is missing
ItemGuard_NoCap(item, new, cap) ==
    IF item.day = "old" THEN "break"
    ELSE IF item.fid = 0 THEN "continue"
    ELSE "claim"

\* mutant: the cap test is off by one
ItemGuard_CapOffByOne(item, new, cap) ==
    IF item.day = "old" THEN "break"
    ELSE IF new > cap THEN "break"
    ELSE IF item.fid = 0 THEN "continue"
    ELSE "claim"

\* the head of the item loop: ingest_f3x.py lines 50-61, ingest_ie.py lines 27-38
ItemGuard(item, new, cap) ==
    IF item.day = "old" THEN "break"
    ELSE IF new >= cap THEN "break"
    ELSE IF item.fid = 0 THEN "continue"
    ELSE "claim"

\* the first read of a filing's header fixes its total
ReadTotal(f, total) ==
    /\ text[f].total \in {UnknownTotal, total}
    /\ text' = [text EXCEPT ![f].total = total]

\* the first read of a filing's Schedule E lines fixes them
ReadLines(f, lines) ==
    /\ text[f].se \in {NoLines, lines}
    /\ text' = [text EXCEPT ![f].se = lines]

CountDownload(f, src) ==
    dl' = [dl EXCEPT ![<<f, src>>] = IF @ < 2 THEN @ + 1 ELSE @]

\* a run starts on a fresh session; the runs are named in the order in which
\* they start
FreshRun(r) ==
    /\ run[r] = Idle /\ sess[r] = NewSession
    /\ r = "r1" \/ run["r1"] # Idle

\* run_f3x, lines 41-46: the cap is read from app_config, the feed is fetched
F3XStart(r, entries, caps, feeds) ==
    /\ FreshRun(r)
    /\ \E entry \in entries, cap \in caps, feed \in feeds :
           run' = [run EXCEPT ![r] = [Idle EXCEPT !.kind = "f3x", !.entry = entry,
                      !.pc = "loop", !.feed = feed, !.idx = 1, !.cap = cap]]
    /\ ev' = NoEv
    /\ UNCHANGED <<tasks, events, filings, sess, text, dl, jobs, ncalls, cool, loop>>

\* run_f3x, line 43: fetch_rss_items raises (transport error, bad XML)
F3XFetchFails(r, entry, cap) ==
    /\ FreshRun(r)
    /\ run' = [run EXCEPT ![r] = [Idle EXCEPT !.kind = "f3x", !.entry = entry,
                  !.pc = "end", !.cap = cap, !.raised = TRUE]]
    /\ ev' = NoEv
    /\ UNCHANGED <<tasks, events, filings, sess, text, dl, jobs, ncalls, cool, loop>>

\* after the item loop of a feed: run_f3x returns; run_ie_schedule_e
\* (lines 118-120) leaves the loop over the URLs when the cap is reached,
\* else fetches the next URL
AfterFeed(me) ==
    IF me.kind = "ie" /\ me.new < me.cap /\ me.url < Len(IEFeeds)
    THEN [me EXCEPT !.pc = "fetch", !.url = @ + 1]
    ELSE [me EXCEPT !.pc = "end"]

\* the source_feed a pass claims under
SourceOf(me) == IF me.kind = "f3x" THEN "F3X" ELSE IEFeeds[me.url]

\* one turn of the item loop up to the existence check of claim_filing:
\* run_f3x lines 48-65, run_ie_schedule_e lines 25-41
PassItem(r) ==
    /\ run[r].kind \in {"f3x", "ie"} /\ run[r].pc = "loop"
    /\ LET me == run[r]
           i == me.idx
       IN IF i > Len(me.feed)
          THEN /\ run' = [run EXCEPT ![r] = AfterFeed(me)]
               /\ ev' = NoEv
          ELSE LET g == ItemGuard(me.feed[i], me.new, me.cap)
                   k == <<me.feed[i].fid, SourceOf(me)>>
               IN CASE g = "break" ->
                         /\ run' = [run EXCEPT ![r] = AfterFeed(me)]
                         /\ ev' = NoEv
                    [] g = "continue" ->
                         /\ run' = [run EXCEPT ![r].idx = i + 1,
                                                ![r].seen = @ \cup {i}]
                         /\ ev' = NoEv
                    [] g = "claim" /\ claim_filing_existing(sess, r, k) ->
                         /\ run' = [run EXCEPT ![r].idx = i + 1,
                                                ![r].seen = @ \cup {i},
                                                ![r].skipped = IF run[r].kind = "f3x" THEN @ + 1 ELSE @]
                         /\ ev' = ClaimEv(r, k, [ret |-> FALSE, raised |-> FALSE], FALSE)
                    [] OTHER ->
                         /\ run' = [run EXCEPT ![r].pc = "claim_ins",
                                                ![r].seen = @ \cup {i},
                                                ![r].fid = k[1], ![r].src = k[2]]
                         /\ ev' = NoEv
    /\ UNCHANGED <<tasks, events, filings, sess, text, dl, jobs, ncalls, cool, loop>>

\* the insert of claim_filing in a pass.  run_f3x (lines 63-70) marks a
\* claimed filing "downloading"; run_ie_schedule_e (lines 40-44) goes
\* straight to the download.  A lost claim moves on to the next item.
PassClaimInsert(r) ==
    /\ run[r].kind \in {"f3x", "ie"} /\ run[r].pc = "claim_ins"
    /\ LET k == <<run[r].fid, run[r].src>>
           out == claim_filing_insert(sess, r, k)
       IN /\ ~TaskLocked(sess, r, k) \/ Deadlocked(sess, r)
          /\ ev' = [ClaimEv(r, k, out, TRUE) EXCEPT
                       !.trail = IF out.ret /\ run[r].kind = "f3x"
                                 THEN <<"claimed", "downloading">> ELSE @]
          /\ IF out.raised
             THEN /\ sess' = out.sess
                  /\ run' = [run EXCEPT ![r].pc = "end", ![r].raised = TRUE]
             ELSE IF out.ret
             THEN /\ sess' = IF run[r].kind = "f3x"
                             THEN update_filing_status(out.sess, r, k, "downloading", NULL, NULL)
                             ELSE out.sess
                  /\ run' = [run EXCEPT ![r].pc = "download"]
             ELSE /\ sess' = out.sess
                  /\ run' = [run EXCEPT ![r].pc = "loop", ![r].idx = @ + 1,
                                         ![r].skipped = IF run[r].kind = "f3x" THEN @ + 1 ELSE @]
    /\ UNCHANGED <<tasks, events, filings, text, dl, jobs, ncalls, cool, loop>>

\* mutant: no try/except around download_fec_header: the error leaves the pass
F3XDownload_Abort(r, ok, total) ==
    /\ run[r].kind = "f3x" /\ run[r].pc = "download"
    /\ LET k == <<run[r].fid, run[r].src>> IN
       IF ok
       THEN /\ ReadTotal(k[1], total)
            /\ CountDownload(k[1], k[2])
            /\ sess' = update_filing_status(
                           update_filing_status(sess, r, k, "downloaded", NULL, NULL),
                           r, k, "parsing", NULL, NULL)
            /\ run' = [run EXCEPT ![r].pc = "parse"]
            /\ ev' = StatusEv(r, k, <<"downloaded", "parsing">>)
       ELSE /\ total = NoTotal
            /\ sess' = update_filing_status(sess, r, k, "failed", "downloading", "error")
            /\ run' = [run EXCEPT ![r].pc = "end", ![r].failed = @ + 1,
                                   ![r].raised = TRUE]
            /\ ev' = StatusEv(r, k, <<"failed">>)
            /\ UNCHANGED <<text, dl>>
    /\ UNCHANGED <<tasks, events, filings, jobs, ncalls, cool, loop>>

\* run_f3x, lines 71-85: download_fec_header returns the header, or raises
F3XDownload(r, ok, total) ==
    /\ run[r].kind = "f3x" /\ run[r].pc = "download"
    /\ LET k == <<run[r].fid, run[r].src>> IN
       IF ok
       THEN /\ ReadTotal(k[1], total)
            /\ CountDownload(k[1], k[2])
            /\ sess' = update_filing_status(
                           update_filing_status(sess, r, k, "downloaded", NULL, NULL),
                           r, k, "parsing", NULL, NULL)
            /\ run' = [run EXCEPT ![r].pc = "parse"]
            /\ ev' = StatusEv(r, k, <<"downloaded", "parsing">>)
       ELSE /\ total = NoTotal
            /\ sess' = update_filing_status(sess, r, k, "failed", "downloading", "error")
            /\ run' = [run EXCEPT ![r].pc = "loop", ![r].idx = @ + 1,
                                   ![r].failed = @ + 1]
            /\ ev' = StatusEv(r, k, <<"failed">>)
            /\ UNCHANGED <<text, dl>>
    /\ UNCHANGED <<tasks, events, filings, jobs, ncalls, cool, loop>>

\* run_f3x, lines 86-139: parse the header, resolve the name, upsert the
\* summary, mark "ingested"; an exception of the parse marks the task failed
\* at "parsing".  upsert_f3x overwrites the row its session.get finds (the
\* UPDATE waits for a transaction that holds the row); when it finds none
\* its INSERT follows in F3XUpsertInsert.
F3XParse(r, ok) ==
    /\ run[r].kind = "f3x" /\ run[r].pc = "parse"
    /\ LET k == <<run[r].fid, run[r].src>>
           total == text[k[1]].total
           threshold_flag == total # NoTotal /\ total >= receipts_threshold
       IN IF ok
          THEN IF upsert_f3x_existing(sess, r, k[1])
               THEN /\ ~FilingLocked(sess, r, k[1])
                    /\ sess' = update_filing_status(
                                   upsert_f3x(sess, r, k[1], total, threshold_flag, "feed"),
                                   r, k, "ingested", NULL, NULL)
                    /\ run' = [run EXCEPT ![r].pc = "loop", ![r].idx = @ + 1,
                                           ![r].new = @ + 1]
                    /\ ev' = [UpsertEv(r, k[1], total, "feed") EXCEPT
                                 !.src = k[2], !.trail = <<"ingested">>]
               ELSE /\ run' = [run EXCEPT ![r].pc = "upsert_ins", ![r].total = total]
                    /\ ev' = NoEv
                    /\ UNCHANGED sess
          ELSE /\ sess' = update_filing_status(sess, r, k, "failed", "parsing", "error")
               /\ run' = [run EXCEPT ![r].pc = "loop", ![r].idx = @ + 1,
                                      ![r].failed = @ + 1]
               /\ ev' = StatusEv(r, k, <<"failed">>)
    /\ UNCHANGED <<tasks, events, filings, text, dl, jobs, ncalls, cool, loop>>

\* the INSERT of upsert_f3x in run_f3x (repo.py line 204, ingest_f3x.py lines
\* 107-131).  It waits while another open transaction holds the key.  When it
\* fails, the flush has rolled the transaction back and the session refuses
\* further statements: the except block's update_filing_status raises in its
\* turn, and run_f3x raises to its caller.
F3XUpsertInsert(r) ==
    /\ run[r].kind = "f3x" /\ run[r].pc = "upsert_ins"
    /\ LET k == <<run[r].fid, run[r].src>>
           total == run[r].total
           threshold_flag == total # NoTotal /\ total >= receipts_threshold
       IN /\ ~FilingLocked(sess, r, k[1]) \/ Deadlocked(sess, r)
          /\ IF FilingInsertFails(sess, r, k[1]) \/ Deadlocked(sess, r)
             THEN /\ sess' = [sess EXCEPT ![r] = NewSession]
                  /\ run' = [run EXCEPT ![r].pc = "end", ![r].raised = TRUE,
                                         ![r].broken = TRUE]
                  /\ ev' = [NoEv EXCEPT !.op = "flush_error", !.r = r, !.fid = k[1],
                               !.raised = TRUE]
             ELSE /\ sess' = update_filing_status(
                                 upsert_f3x(sess, r, k[1], total, threshold_flag, "feed"),
                                 r, k, "ingested", NULL, NULL)
                  /\ run' = [run EXCEPT ![r].pc = "loop", ![r].idx = @ + 1,
                                         ![r].new = @ + 1]
                  /\ ev' = [UpsertEv(r, k[1], total, "feed") EXCEPT
                               !.src = k[2], !.trail = <<"ingested">>]
    /\ UNCHANGED <<tasks, events, filings, text, dl, jobs, ncalls, cool, loop>>

\* mutant: the hash is taken of the line's position, not of its content
event_id_ByPosition(me) == sha256_hex(me.fid, me.lidx)

\* event_id = sha256_hex(f"{filing_id}|{raw_line}") of the current line:
\* ingest_ie.py line 71, backfill.py line 250
event_id(me) == sha256_hex(me.fid, me.lines[me.lidx])

\* run_ie_schedule_e called on a fresh session, lines 17-20
IEStart(r, cap) ==
    /\ FreshRun(r)
    /\ run' = [run EXCEPT ![r] = [Idle EXCEPT !.kind = "ie", !.entry = "test",
                  !.pc = "fetch", !.url = 1, !.cap = cap]]
    /\ ev' = NoEv
    /\ UNCHANGED <<tasks, events, filings, sess, text, dl, jobs, ncalls, cool, loop>>

\* the entry points call run_ie_schedule_e on the session run_f3x has used,
\* whether run_f3x returned or raised: ingest_job.py lines 69-93,
\* api.py lines 1217-1229 and 1431-1460.  On a session whose flush has
\* failed the first statement (get_max_new_per_run, line 17) raises.
IEAfterF3X(r) ==
    /\ run[r].kind = "f3x" /\ run[r].pc = "end" /\ run[r].entry # "test"
    /\ run' = [run EXCEPT ![r] =
                  IF run[r].broken
                  THEN [Idle EXCEPT !.kind = "ie", !.entry = run[r].entry, !.pc = "end",
                                    !.raised = TRUE, !.broken = TRUE]
                  ELSE [Idle EXCEPT !.kind = "ie", !.entry = run[r].entry,
                                    !.pc = "fetch", !.url = 1, !.cap = run[r].cap]]
    /\ ev' = NoEv
    /\ UNCHANGED <<tasks, events, filings, sess, text, dl, jobs, ncalls, cool, loop>>

\* run_ie_schedule_e, lines 22-24: the items of the next feed URL
IEFetch(r, feeds) ==
    /\ run[r].kind = "ie" /\ run[r].pc = "fetch"
    /\ \E feed \in feeds :
           run' = [run EXCEPT ![r].pc = "loop", ![r].feed = feed, ![r].idx = 1,
                                  ![r].seen = {}]
    /\ ev' = NoEv
    /\ UNCHANGED <<tasks, events, filings, sess, text, dl, jobs, ncalls, cool, loop>>

\* run_ie_schedule_e, line 23: fetch_rss_items raises out of the pass
IEFetchFails(r) ==
    /\ run[r].kind = "ie" /\ run[r].pc = "fetch"
    /\ run' = [run EXCEPT ![r].pc = "end", ![r].raised = TRUE]
    /\ ev' = NoEv
    /\ UNCHANGED <<tasks, events, filings, sess, text, dl, jobs, ncalls, cool, loop>>

\* run_ie_schedule_e, lines 43-55.  "ok": download_fec_text returns the text.
\* "too_large": FileTooLargeError is caught, and the call of
\* record_skipped_filing (which lacks the positional argument reason) raises
\* TypeError out of the pass.  "error": any other exception of the download
\* is not caught and leaves the pass.
IEDownload(r, outcome, lines) ==
    /\ run[r].kind = "ie" /\ run[r].pc = "download"
    /\ IF outcome = "ok"
       THEN /\ ReadLines(run[r].fid, lines)
            /\ CountDownload(run[r].fid, run[r].src)
            /\ run' = [run EXCEPT ![r].pc = "parse", ![r].lines = lines, ![r].lidx = 1]
            /\ ev' = NoEv
       ELSE /\ lines = <<>>
            /\ run' = [run EXCEPT ![r].pc = "end", ![r].raised = TRUE]
            /\ ev' = [NoEv EXCEPT !.op = outcome, !.r = r, !.fid = run[r].fid,
                         !.src = run[r].src, !.raised = TRUE]
            /\ UNCHANGED <<text, dl>>
    /\ UNCHANGED <<tasks, events, filings, sess, jobs, ncalls, cool, loop>>

\* run_ie_schedule_e, lines 55-67 and 105-109: parse_fec_filing (the
\* structured decode of fecfile) and the committee lookup; an exception marks
\* the task "failed" (no failed_step).  tier1: the structured decode returns;
\* tier2: the raw-line fallback of extract_schedule_e_best_effort
\* (fec_parse.py lines 263-309) can read the text.  The pass calls the
\* decode itself, outside the function that holds the fallback, so that the
\* fallback is not reached when the decode raises.
IEParse(r, tier1, tier2) ==
    /\ run[r].kind = "ie" /\ run[r].pc = "parse"
    /\ tier1 => tier2
    /\ LET k == <<run[r].fid, run[r].src>> IN
       IF tier1
       THEN /\ run' = [run EXCEPT ![r].pc = "event"]
            /\ ev' = NoEv
            /\ UNCHANGED sess
       ELSE /\ sess' = update_filing_status(sess, r, k, "failed", NULL, NULL)
            /\ run' = [run EXCEPT ![r].pc = "loop", ![r].idx = @ + 1]
            /\ ev' = [StatusEv(r, k, <<"failed">>) EXCEPT !.op = "tier1_error",
                         !.res = tier2]
    /\ UNCHANGED <<tasks, events, filings, text, dl, jobs, ncalls, cool, loop>>

\* run_ie_schedule_e, lines 69-104 and 111-116: the next raw line up to the
\* existence check of insert_ie_event; after the last line the task is marked
\* "ingested" and the filing counts as new
IEEvent(r) ==
    /\ run[r].kind = "ie" /\ run[r].pc = "event"
    /\ LET me == run[r]
           k == <<me.fid, me.src>>
       IN IF me.lidx > Len(me.lines)
          THEN /\ sess' = update_filing_status(sess, r, k, "ingested", NULL, NULL)
               /\ run' = [run EXCEPT ![r].pc = "loop", ![r].idx = @ + 1,
                                      ![r].new = @ + 1, ![r].mine = {}]
               /\ ev' = StatusEv(r, k, <<"ingested">>)
          ELSE LET e == event_id(me) IN
               IF insert_ie_event_existing(sess, r, e)
               THEN /\ run' = [run EXCEPT ![r].lidx = @ + 1]
                    /\ ev' = EventEv(r, e, [ret |-> FALSE, raised |-> FALSE], FALSE)
                    /\ UNCHANGED sess
               ELSE /\ run' = [run EXCEPT ![r].pc = "event_ins",
                                          ![r].line = e[2],
                                          ![r].fields = "feed"]
                    /\ ev' = NoEv
                    /\ UNCHANGED sess
    /\ UNCHANGED <<tasks, events, filings, text, dl, jobs, ncalls, cool, loop>>

\* the insert of insert_ie_event for the current line (ingest_ie.py lines 101-102)
IEEventInsert(r) ==
    /\ run[r].kind = "ie" /\ run[r].pc = "event_ins"
    /\ LET e == sha256_hex(run[r].fid, run[r].line)
           out == insert_ie_event_insert(sess, r, e,
                      [filing_id |-> run[r].fid, fields |-> run[r].fields])
       IN /\ ~EventLocked(sess, r, e) \/ Deadlocked(sess, r)
          /\ sess' = out.sess
          /\ ev' = EventEv(r, e, out, TRUE)
          /\ IF out.raised
             THEN run' = [run EXCEPT ![r].pc = "end", ![r].raised = TRUE]
             ELSE run' = [run EXCEPT ![r].pc = "event", ![r].lidx = @ + 1,
                             ![r].nev = IF out.ret THEN @ + 1 ELSE @,
                             ![r].mine = IF out.ret THEN @ \cup {e} ELSE @]
    /\ UNCHANGED <<tasks, events, filings, text, dl, jobs, ncalls, cool, loop>>

\* mutant: the events the attempt inserted are taken back when it fails
IELoopRaises_Rollback(r) ==
    /\ run[r].kind = "ie" /\ run[r].pc = "event"
    /\ run[r].lidx <= Len(run[r].lines)
    /\ sess' = update_filing_status(
                   [sess EXCEPT ![r].events =
                       [e \in EventIds |-> IF e \in run[r].mine THEN NoPendingEv ELSE @[e]]],
                   r, <<run[r].fid, run[r].src>>, "failed", NULL, NULL)
    /\ run' = [run EXCEPT ![r].pc = "loop", ![r].idx = @ + 1, ![r].mine = {}]
    /\ ev' = StatusEv(r, <<run[r].fid, run[r].src>>, <<"failed">>)
    /\ UNCHANGED <<tasks, events, filings, text, dl, jobs, ncalls, cool, loop>>

\* run_ie_schedule_e, lines 105-109: an exception while the events of a filing
\* are built; the events already inserted stay in the session
IELoopRaises(r) ==
    /\ run[r].kind = "ie" /\ run[r].pc = "event"
    /\ run[r].lidx <= Len(run[r].lines)
    /\ sess' = update_filing_status(sess, r, <<run[r].fid, run[r].src>>, "failed", NULL, NULL)
    /\ run' = [run EXCEPT ![r].pc = "loop", ![r].idx = @ + 1, ![r].mine = {}]
    /\ ev' = StatusEv(r, <<run[r].fid, run[r].src>>, <<"failed">>)
    /\ UNCHANGED <<tasks, events, filings, text, dl, jobs, ncalls, cool, loop>>

\* the caller after the pass.  run_job (ingest_job.py line 95) and
\* cron_check_new (_save_cron_status, api.py) commit the session, also after
\* a pass that raised; the thread of _maybe_run_ingestion (api.py lines
\* 1217-1229) and the tests close it uncommitted.
PassEnd(r) ==
    /\ run[r].pc = "end"
    /\ run[r].kind = "ie" \/ (run[r].kind = "f3x" /\ run[r].entry = "test")
    /\ IF run[r].entry \in {"job", "cron"}
       THEN /\ tasks' = CommittedTasks(sess, r)
            /\ events' = CommittedEvents(sess, r)
            /\ filings' = CommittedFilings(sess, r)
       ELSE UNCHANGED <<tasks, events, filings>>
    /\ sess' = [sess EXCEPT ![r] = NewSession]
    /\ run' = [run EXCEPT ![r] = Done]
    /\ ev' = [NoEv EXCEPT !.op = "end", !.r = r]
    /\ UNCHANGED <<text, dl, jobs, ncalls, cool, loop>>

\* the process dies in the middle of a pass or of a backfill (out of memory,
\* the job's timeout, a redeploy): the server rolls the open transaction
\* back; a backfill job stays "running"
Crash(r) ==
    /\ run[r].kind \in {"f3x", "ie", "bf3x", "bfe"}
    /\ run[r].pc \notin {"idle", "done", "dead"}
    /\ sess' = [sess EXCEPT ![r] = NewSession]
    /\ run' = [run EXCEPT ![r] =
                  IF run[r].pc \in {"download", "parse", "upsert_ins", "event", "event_ins"}
                  THEN [Idle EXCEPT !.pc = "dead", !.fid = run[r].fid, !.src = run[r].src]
                  ELSE [Idle EXCEPT !.pc = "dead"]]
    /\ ev' = [NoEv EXCEPT !.op = "crash", !.r = r]
    /\ UNCHANGED <<tasks, events, filings, text, dl, jobs, ncalls, cool, loop>>

\* --------------------------------------------------- one pass, any feed
\* One call of run_f3x or of run_ie_schedule_e on a fresh session, as in
\* TestRunF3XIntegration and TestRunIEIntegration, over every feed of up to
\* MaxItems items (MaxItems - 1 per IE feed URL).
PassRuns == {"r1"}
PassTotals == {60}
PassLines == {<<>>, <<1>>}
IEPassFeeds == SeqsUpTo(FeedItems, MaxItems - 1)

NextPass ==
    \E r \in PassRuns :
        \/ F3XStart(r, {"test"}, 1..MaxCap, Feeds)
        \/ \E cap \in 1..MaxCap : F3XFetchFails(r, "test", cap)
        \/ PassItem(r)
        \/ PassClaimInsert(r)
        \/ \E ok \in BOOLEAN, total \in PassTotals \cup {NoTotal} : F3XDownload(r, ok, total)
        \/ \E ok \in BOOLEAN : F3XParse(r, ok)
        \/ F3XUpsertInsert(r)
        \/ \E cap \in 1..MaxCap : IEStart(r, cap)
        \/ IEFetch(r, IEPassFeeds)
        \/ IEFetchFails(r)
        \/ \E o \in {"ok", "too_large", "error"}, lines \in PassLines : IEDownload(r, o, lines)
        \/ \E tier1, tier2 \in BOOLEAN : IEParse(r, tier1, tier2)
        \/ IEEvent(r)
        \/ IEEventInsert(r)
        \/ IELoopRaises(r)
        \/ PassEnd(r)
        \/ Crash(r)

SpecPass == Init /\ [][NextPass]_vars

\* ---------------------------------------------------------- backfill
\* the filings the FEC API lists on one page: file_number (0: none)
BFItemOf(f) == [fid |-> f, day |-> "api"]

\* session.commit() of everything the session holds
Commit(r) ==
    /\ tasks' = CommittedTasks(sess, r)
    /\ events' = CommittedEvents(sess, r)
    /\ filings' = CommittedFilings(sess, r)
    /\ sess' = [sess EXCEPT ![r] = NewSession]

KindOf(ft) == IF ft = "3x" THEN "bf3x" ELSE "bfe"
TypeOf(me) == IF me.kind = "bf3x" THEN "3x" ELSE "e"

\* mutant: a running job is reset and restarted whatever its age
TriggerRefused_NoAgeTest(job, stale) == job.status = "completed"

\* trigger_backfill, api.py lines 1146-1158: the request is answered
\* "already_running" for a running job that started less than 10 minutes ago
\* and "already_completed" for a completed one
TriggerRefused(job, stale) ==
    \/ job.status = "running" /\ ~stale
    \/ job.status = "completed"

\* trigger_backfill (api.py lines 1122-1169) and _trigger_backfill_async: a
\* request that is not refused resets a stale running job to "pending",
\* creates the job if there is none, and starts a thread on a new session
BFTrigger(r, ft, stale) ==
    /\ FreshRun(r)
    /\ stale => jobs[ft].status = "running"
    /\ ev' = [NoEv EXCEPT !.op = "trigger", !.r = r, !.ft = ft, !.stale = stale,
                 !.res = ~TriggerRefused(jobs[ft], stale)]
    /\ IF TriggerRefused(jobs[ft], stale)
       THEN UNCHANGED <<jobs, run>>
       ELSE /\ jobs' = [jobs EXCEPT ![ft].status =
                          IF @ \in {"absent", "running"} THEN "pending" ELSE @,
                                      ![ft].rows = IF @ = 0 THEN 1 ELSE @]
            /\ run' = [run EXCEPT ![r] = [Idle EXCEPT !.kind = KindOf(ft),
                          !.entry = "admin", !.pc = "bf_start"]]
    /\ UNCHANGED <<tasks, events, filings, sess, text, dl, ncalls, cool, loop>>

\* backfill_date_f3x lines 42-53, backfill_date_e lines 175-184: a completed
\* job returns at once, any other is marked "running" and committed
BFStart(r) ==
    /\ run[r].kind \in {"bf3x", "bfe"} /\ run[r].pc = "bf_start"
    /\ IF jobs[TypeOf(run[r])].status = "completed"
       THEN /\ run' = [run EXCEPT ![r] = Done]
            /\ ev' = [NoEv EXCEPT !.op = "bf_return", !.r = r, !.ft = TypeOf(run[r]),
                         !.res = TRUE]
            /\ UNCHANGED jobs
       ELSE /\ run' = [run EXCEPT ![r].pc = "bf_page", ![r].url = 1]
            /\ ev' = NoEv
            /\ jobs' = [jobs EXCEPT ![TypeOf(run[r])].status = "running"]
    /\ UNCHANGED <<tasks, events, filings, sess, text, dl, ncalls, cool, loop>>

\* the page count of a response: pagination.get("pages", 1), backfill.py
\* lines 155-156 and 280-281; NoPages stands for a response without the field
NoPages == 0
PageCounts == {NoPages} \cup (1..MaxPages)
PagesOf(pages) == IF pages = NoPages THEN 1 ELSE pages

\* mutant: the loop goes on to the page after the last
LastPage_OneMore(page, pages) == page > PagesOf(pages)

\* the test that ends the loop over the pages, lines 156 and 281
LastPage(page, pages) == page >= PagesOf(pages)

\* the end of the job: backfill_date_f3x lines 160-170, backfill_date_e
\* lines 285-295; the function returns the job.  pages: the page count of
\* the response that ended the loop, NoPages when none was read
BFFinish(r, status, pages) ==
    /\ Commit(r)
    /\ ev' = [NoEv EXCEPT !.op = "bf_return", !.r = r, !.ft = TypeOf(run[r]),
                 !.res = (status = "completed"), !.pages = pages]
    /\ jobs' = [jobs EXCEPT ![TypeOf(run[r])] =
                   IF status = "completed"
                   THEN [@ EXCEPT !.status = "completed", !.completed_at = TRUE,
                                  !.found = run[r].new]
                   ELSE [@ EXCEPT !.status = "failed", !.error_message = "error"]]
    /\ run' = [run EXCEPT ![r] = Done]

\* one page of the API: backfill.py lines 58-78 and 190-210.  An empty page
\* ends the job as "completed".
BFPage(r, results) ==
    /\ run[r].kind \in {"bf3x", "bfe"} /\ run[r].pc = "bf_page"
    /\ IF results = <<>>
       THEN BFFinish(r, "completed", NoPages)
       ELSE /\ run' = [run EXCEPT ![r].pc = "bf_loop", ![r].feed = results, ![r].idx = 1]
            /\ ev' = NoEv
            /\ UNCHANGED <<tasks, events, filings, sess, jobs>>
    /\ UNCHANGED <<text, dl, ncalls, cool, loop>>

\* an exception inside the try block (a failed API request, a database
\* error): the job is marked "failed" and the session is committed,
\* backfill.py lines 165-170 and 290-295
BFRaises(r) ==
    /\ run[r].kind \in {"bf3x", "bfe"}
    /\ run[r].pc \in {"bf_page", "download", "event"}
    /\ BFFinish(r, "failed", NoPages)
    /\ UNCHANGED <<text, dl, ncalls, cool, loop>>

\* the loop over the results of a page up to the existence check of
\* claim_filing (backfill_date_f3x, lines 80-87) or up to the download
\* (backfill_date_e, lines 212-216, which claims nothing); after the last
\* result the next page, or the end of the job (lines 154-162, 280-287).
\* pages: the page count the response of the page reports, read after the
\* last result
BFItem(r, pages) ==
    /\ run[r].kind \in {"bf3x", "bfe"} /\ run[r].pc = "bf_loop"
    /\ LET me == run[r]
           i == me.idx
           k == <<me.feed[i].fid, "BACKFILL">>
       IN IF i > Len(me.feed)
          THEN IF LastPage(me.url, pages)
               THEN BFFinish(r, "completed", pages)
               ELSE /\ run' = [run EXCEPT ![r].pc = "bf_page", ![r].url = @ + 1]
                    /\ ev' = [NoEv EXCEPT !.op = "next_page", !.r = r,
                                 !.ft = TypeOf(me), !.pages = pages]
                    /\ UNCHANGED <<tasks, events, filings, sess, jobs>>
          ELSE /\ pages = NoPages
               /\ UNCHANGED <<tasks, events, filings, sess, jobs>>
               /\ IF me.feed[i].fid = 0
                  THEN /\ run' = [run EXCEPT ![r].idx = i + 1]
                       /\ ev' = NoEv
                  ELSE IF me.kind = "bfe"
                  THEN /\ run' = [run EXCEPT ![r].pc = "download", ![r].fid = k[1],
                                             ![r].src = "BACKFILL_E"]
                       /\ ev' = NoEv
                  ELSE IF claim_filing_existing(sess, r, k)
                  THEN /\ run' = [run EXCEPT ![r].idx = i + 1, ![r].skipped = @ + 1]
                       /\ ev' = ClaimEv(r, k, [ret |-> FALSE, raised |-> FALSE], FALSE)
                  ELSE /\ run' = [run EXCEPT ![r].pc = "claim_ins", ![r].fid = k[1],
                                             ![r].src = k[2]]
                       /\ ev' = NoEv
    /\ UNCHANGED <<text, dl, ncalls, cool, loop>>

\* the insert of claim_filing in backfill_date_f3x, lines 86-87
BFClaimInsert(r) ==
    /\ run[r].kind = "bf3x" /\ run[r].pc = "claim_ins"
    /\ LET k == <<run[r].fid, run[r].src>>
           out == claim_filing_insert(sess, r, k)
       IN /\ ~TaskLocked(sess, r, k) \/ Deadlocked(sess, r)
          /\ ev' = ClaimEv(r, k, out, TRUE)
          /\ sess' = out.sess
          /\ IF out.raised
             THEN run' = [run EXCEPT ![r].pc = "bf_page", ![r].raised = TRUE]
             ELSE IF out.ret
             THEN run' = [run EXCEPT ![r].pc = "download"]
             ELSE run' = [run EXCEPT ![r].pc = "bf_loop", ![r].idx = @ + 1,
                             ![r].skipped = @ + 1]
    /\ UNCHANGED <<tasks, events, filings, text, dl, jobs, ncalls, cool, loop>>

\* mutant: no fallback to the total of the API
BFTotal_NoFallback(outcome, total, api_total) ==
    IF outcome = "ok" THEN total ELSE NoTotal

\* backfill_date_f3x, lines 91-106: the total of the parsed file, or else,
\* when the file gave none (parsed = {} after a failed download or parse, or
\* a header without the field), total_receipts of the API result
BFTotal(outcome, total, api_total) ==
    IF outcome = "ok" /\ total # NoTotal THEN total ELSE api_total

\* backfill_date_f3x, lines 89-152: download and parse (a failure of either
\* leaves parsed = {}), the total of the file or else of the API, the upsert.
\* upsert_f3x overwrites the row its session.get finds; when it finds none
\* its INSERT follows in BF3XUpsertInsert.
BF3XProcess(r, outcome, total, api_total) ==
    /\ run[r].kind = "bf3x" /\ run[r].pc = "download"
    /\ LET f == run[r].fid
           t == BFTotal(outcome, total, api_total)
           threshold_flag == t # NoTotal /\ t >= receipts_threshold
       IN /\ CASE outcome = "ok" -> ReadTotal(f, total) /\ CountDownload(f, "BACKFILL")
                [] outcome = "parse_fail" ->
                       total = NoTotal /\ CountDownload(f, "BACKFILL") /\ UNCHANGED text
                [] OTHER -> total = NoTotal /\ UNCHANGED <<text, dl>>
          /\ IF upsert_f3x_existing(sess, r, f)
             THEN /\ ~FilingLocked(sess, r, f)
                  /\ sess' = upsert_f3x(sess, r, f, t, threshold_flag, "backfill")
                  /\ run' = [run EXCEPT ![r].pc = "bf_loop", ![r].idx = @ + 1,
                                         ![r].new = @ + 1]
                  /\ ev' = [UpsertEv(r, f, t, "backfill") EXCEPT !.body = outcome,
                               !.api = api_total]
             ELSE /\ run' = [run EXCEPT ![r].pc = "upsert_ins", ![r].total = t]
                  /\ ev' = [NoEv EXCEPT !.op = "bf_body", !.r = r, !.fid = f,
                               !.body = outcome, !.api = api_total]
                  /\ UNCHANGED sess
    /\ UNCHANGED <<tasks, events, filings, jobs, ncalls, cool, loop>>

\* the INSERT of upsert_f3x in backfill_date_f3x (repo.py line 204,
\* backfill.py lines 136-152).  It waits while another open transaction holds
\* the key.  When it fails, the flush has rolled the transaction back; the
\* except block (lines 165-167) sets the fields of the job in memory, and the
\* commit of line 169, outside the try block, raises on the failed session:
\* the function raises and the stored job keeps the status "running".
BF3XUpsertInsert(r) ==
    /\ run[r].kind = "bf3x" /\ run[r].pc = "upsert_ins"
    /\ LET f == run[r].fid
           t == run[r].total
           threshold_flag == t # NoTotal /\ t >= receipts_threshold
       IN /\ ~FilingLocked(sess, r, f) \/ Deadlocked(sess, r)
          /\ IF FilingInsertFails(sess, r, f) \/ Deadlocked(sess, r)
             THEN /\ sess' = [sess EXCEPT ![r] = NewSession]
                  /\ run' = [run EXCEPT ![r] = [Done EXCEPT !.raised = TRUE]]
                  /\ ev' = [NoEv EXCEPT !.op = "bf_raise", !.r = r, !.fid = f,
                               !.ft = TypeOf(run[r]), !.raised = TRUE]
             ELSE /\ sess' = upsert_f3x(sess, r, f, t, threshold_flag, "backfill")
                  /\ run' = [run EXCEPT ![r].pc = "bf_loop", ![r].idx = @ + 1,
                                         ![r].new = @ + 1]
                  /\ ev' = UpsertEv(r, f, t, "backfill")
    /\ UNCHANGED <<tasks, events, filings, text, dl, jobs, ncalls, cool, loop>>

\* backfill_date_e, lines 216-221: a failed download passes the filing over
BFEDownload(r, ok, lines) ==
    /\ run[r].kind = "bfe" /\ run[r].pc = "download"
    /\ IF ok
       THEN /\ ReadLines(run[r].fid, lines)
            /\ CountDownload(run[r].fid, "BACKFILL_E")
            /\ run' = [run EXCEPT ![r].pc = "event", ![r].lines = lines, ![r].lidx = 1]
       ELSE /\ lines = <<>>
            /\ run' = [run EXCEPT ![r].pc = "bf_loop", ![r].idx = @ + 1]
            /\ UNCHANGED <<text, dl>>
    /\ ev' = NoEv
    /\ UNCHANGED <<tasks, events, filings, sess, jobs, ncalls, cool, loop>>

\* backfill_date_e, lines 249-278: the next raw line up to the existence
\* check of insert_ie_event
BFEEvent(r) ==
    /\ run[r].kind = "bfe" /\ run[r].pc = "event"
    /\ LET me == run[r] IN
       IF me.lidx > Len(me.lines)
       THEN /\ run' = [run EXCEPT ![r].pc = "bf_loop", ![r].idx = @ + 1]
            /\ ev' = NoEv
       ELSE LET e == event_id(me) IN
            IF insert_ie_event_existing(sess, r, e)
            THEN /\ run' = [run EXCEPT ![r].lidx = @ + 1]
                 /\ ev' = EventEv(r, e, [ret |-> FALSE, raised |-> FALSE], FALSE)
            ELSE /\ run' = [run EXCEPT ![r].pc = "event_ins", ![r].line = e[2],
                                       ![r].fields = "backfill"]
                 /\ ev' = NoEv
    /\ UNCHANGED <<tasks, events, filings, sess, text, dl, jobs, ncalls, cool, loop>>

\* the insert of insert_ie_event in backfill_date_e, lines 277-278:
\* filings_found counts the events inserted
BFEEventInsert(r) ==
    /\ run[r].kind = "bfe" /\ run[r].pc = "event_ins"
    /\ LET e == sha256_hex(run[r].fid, run[r].line)
           out == insert_ie_event_insert(sess, r, e,
                      [filing_id |-> run[r].fid, fields |-> run[r].fields])
       IN /\ ~EventLocked(sess, r, e) \/ Deadlocked(sess, r)
          /\ sess' = out.sess
          /\ ev' = EventEv(r, e, out, TRUE)
          /\ IF out.raised
             THEN run' = [run EXCEPT ![r].pc = "bf_page", ![r].raised = TRUE]
             ELSE run' = [run EXCEPT ![r].pc = "event", ![r].lidx = @ + 1,
                             ![r].new = IF out.ret THEN @ + 1 ELSE @]
    /\ UNCHANGED <<tasks, events, filings, text, dl, jobs, ncalls, cool, loop>>

\* ------------------------------------------- the entry points together
\* Two sessions at a time, each opened by an entry point: an ingestion run
\* (run_job, cron_check_new, the thread of _maybe_run_ingestion) that runs
\* run_f3x and then run_ie_schedule_e, or a backfill thread.
Item(f) == [fid |-> f, day |-> "today"]
SpecEntries == {"job", "ui"}
SpecFeeds == {<<Item(1), Item(2)>>}
SpecIEFeeds == {<<Item(1)>>}
SpecLines == {<<2, 1>>}
SpecTotals == {60}
SpecResults == {<<>>, <<BFItemOf(1)>>}

Next ==
    \E r \in Runs :
        \/ F3XStart(r, SpecEntries, {MaxCap}, SpecFeeds)
        \/ \E entry \in SpecEntries : F3XFetchFails(r, entry, MaxCap)
        \/ PassItem(r)
        \/ PassClaimInsert(r)
        \/ \E ok \in BOOLEAN, total \in SpecTotals : F3XDownload(r, ok, total)
        \/ \E ok \in BOOLEAN : F3XParse(r, ok)
        \/ F3XUpsertInsert(r)
        \/ IEAfterF3X(r)
        \/ IEFetch(r, SpecIEFeeds)
        \/ IEFetchFails(r)
        \/ \E o \in {"ok", "too_large", "error"}, lines \in SpecLines \cup {<<>>} :
               IEDownload(r, o, lines)
        \/ \E tier1, tier2 \in BOOLEAN : IEParse(r, tier1, tier2)
        \/ IEEvent(r)
        \/ IEEventInsert(r)
        \/ IELoopRaises(r)
        \/ PassEnd(r)
        \/ Crash(r)
        \/ \E ft \in {"3x", "e"}, stale \in BOOLEAN : BFTrigger(r, ft, stale)
        \/ BFStart(r)
        \/ \E results \in SpecResults : BFPage(r, results)
        \/ BFRaises(r)
        \/ \E pages \in {NoPages, MaxPages} : BFItem(r, pages)
        \/ BFClaimInsert(r)
        \/ \E o \in {"ok", "parse_fail", "dl_fail"}, total \in SpecTotals,
              api_total \in SpecTotals : BF3XProcess(r, o, total, api_total)
        \/ BF3XUpsertInsert(r)
        \/ \E ok \in BOOLEAN, lines \in SpecLines \cup {<<>>} : BFEDownload(r, ok, lines)
        \/ BFEEvent(r)
        \/ BFEEventInsert(r)

Spec == Init /\ [][Next]_vars

\* ------------------------------------------------- reset and retry
\* reset_failed_tasks called on a session of its own and committed, between
\* the runs of the ingestion job; filing_ids = None resets every failed task
RetryReset(r, ids) ==
    /\ run[r].pc \in {"idle", "done"} /\ sess[r] = NewSession
    /\ FailedKeys(sess, r, ids) # {}
    /\ \A k \in FailedKeys(sess, r, ids) : ~TaskLocked(sess, r, k)
    /\ tasks' = CommittedTasks(reset_failed_tasks(sess, r, ids), r)
    /\ ev' = [NoEv EXCEPT !.op = "reset", !.r = r, !.ids = ids,
                 !.line = Cardinality(FailedKeys(sess, r, ids))]
    /\ UNCHANGED <<events, filings, sess, run, text, dl, jobs, ncalls, cool, loop>>

\* a finished run makes room for the next run of the job
NextRun(r) ==
    /\ run[r] = Done
    /\ run' = [run EXCEPT ![r] = Idle]
    /\ ev' = NoEv
    /\ UNCHANGED <<tasks, events, filings, sess, text, dl, jobs, ncalls, cool, loop>>

\* Runs of scripts/ingest_job.py, each committed at its end, with
\* reset_failed_tasks called between them.
RetryFeeds == {<<Item(1)>>, <<Item(1), Item(2)>>}
RetryLines == {<<>>, <<1>>}

NextRetry ==
    \E r \in Runs :
        \/ F3XStart(r, {"job"}, {MaxCap}, RetryFeeds)
        \/ PassItem(r)
        \/ PassClaimInsert(r)
        \/ \E ok \in BOOLEAN, total \in SpecTotals : F3XDownload(r, ok, total)
        \/ \E ok \in BOOLEAN : F3XParse(r, ok)
        \/ F3XUpsertInsert(r)
        \/ IEAfterF3X(r)
        \/ IEFetch(r, SpecIEFeeds)
        \/ \E lines \in RetryLines : IEDownload(r, "ok", lines)
        \/ \E tier1, tier2 \in BOOLEAN : IEParse(r, tier1, tier2)
        \/ IEEvent(r)
        \/ IEEventInsert(r)
        \/ PassEnd(r)
        \/ NextRun(r)
        \/ \E ids \in LedgerResets : RetryReset(r, ids)

SpecRetry == Init /\ [][NextRetry]_vars

\* ------------------------------------------------ the summary of a filing
\* One filing that is in the F3X feed of the ingestion job and on the page of
\* an F3X backfill, with every total the header and the API may give; the
\* runs follow one another or overlap.
SummaryFeeds == {<<Item(1)>>}
SummaryResults == {<<>>, <<BFItemOf(1)>>}

NextSummary ==
    \E r \in Runs :
        \/ F3XStart(r, {"job"}, {MaxCap}, SummaryFeeds)
        \/ PassItem(r)
        \/ PassClaimInsert(r)
        \/ \E ok \in BOOLEAN, total \in Totals : F3XDownload(r, ok, total)
        \/ \E ok \in BOOLEAN : F3XParse(r, ok)
        \/ F3XUpsertInsert(r)
        \/ IEAfterF3X(r)
        \/ IEFetch(r, {<<>>})
        \/ PassEnd(r)
        \/ NextRun(r)
        \/ \E stale \in BOOLEAN : BFTrigger(r, "3x", stale)
        \/ BFStart(r)
        \/ \E results \in SummaryResults : BFPage(r, results)
        \/ BFRaises(r)
        \/ \E pages \in {NoPages, MaxPages} : BFItem(r, pages)
        \/ BFClaimInsert(r)
        \/ \E o \in {"ok", "parse_fail", "dl_fail"}, total \in Totals,
              api_total \in Totals : BF3XProcess(r, o, total, api_total)
        \/ BF3XUpsertInsert(r)

SpecSummary == Init /\ [][NextSummary]_vars

\* ------------------------------------------------ callers of upsert_f3x
\* Sessions that call upsert_f3x and commit, as TestUpsertF3X._upsert does
\* (tests/test_ingestion.py lines 238-255), with the flag computed from the
\* total as on line 250 and with every raw_meta the signature admits.
UpsertMetas == {"feed", "backfill", NULL}

\* upsert_f3x up to session.get, and the overwrite of the row it found
TUpsert(r, f, total, raw_meta) ==
    /\ run[r].pc = "idle"
    /\ ncalls < MaxCalls
    /\ ncalls' = ncalls + 1
    /\ IF upsert_f3x_existing(sess, r, f)
       THEN /\ ~FilingLocked(sess, r, f)
            /\ sess' = upsert_f3x(sess, r, f, total,
                                  total # NoTotal /\ total >= receipts_threshold, raw_meta)
            /\ ev' = UpsertEv(r, f, total, raw_meta)
            /\ UNCHANGED run
       ELSE /\ run' = [run EXCEPT ![r] = [Idle EXCEPT !.kind = "caller",
                          !.pc = "upsert_ins", !.fid = f, !.total = total,
                          !.fields = raw_meta]]
            /\ ev' = NoEv
            /\ UNCHANGED sess
    /\ UNCHANGED <<tasks, events, filings, text, dl, jobs, cool, loop>>

\* the INSERT of upsert_f3x and its flush (repo.py lines 171-187 and 204); a
\* key committed meanwhile raises IntegrityError to the caller, whose
\* session is rolled back
TUpsertInsert(r) ==
    /\ run[r].kind = "caller" /\ run[r].pc = "upsert_ins"
    /\ LET f == run[r].fid
           total == run[r].total
       IN /\ ~FilingLocked(sess, r, f) \/ Deadlocked(sess, r)
          /\ IF FilingInsertFails(sess, r, f) \/ Deadlocked(sess, r)
             THEN /\ sess' = [sess EXCEPT ![r] = NewSession]
                  /\ ev' = [NoEv EXCEPT !.op = "flush_error", !.r = r, !.fid = f,
                               !.raised = TRUE]
             ELSE /\ sess' = upsert_f3x(sess, r, f, total,
                                 total # NoTotal /\ total >= receipts_threshold,
                                 run[r].fields)
                  /\ ev' = UpsertEv(r, f, total, run[r].fields)
    /\ run' = [run EXCEPT ![r] = Idle]
    /\ UNCHANGED <<tasks, events, filings, text, dl, jobs, ncalls, cool, loop>>

\* session.commit() of TestUpsertF3X._upsert, line 255
TCommit(r) ==
    /\ run[r].pc = "idle"
    /\ sess[r] # NewSession
    /\ Commit(r)
    /\ ev' = NoEv
    /\ UNCHANGED <<run, text, dl, jobs, ncalls, cool, loop>>

NextUpsert ==
    \E r \in Runs :
        \/ \E f \in FilingIds, total \in Totals, raw_meta \in UpsertMetas :
               TUpsert(r, f, total, raw_meta)
        \/ TUpsertInsert(r)
        \/ TCommit(r)
        \/ LRollback(r)

SpecUpsert == Init /\ [][NextUpsert]_vars

\* ------------------------------------------- feed passes on a used ledger
\* The ingestion job (session r1: feed passes, each committed, and
\* reset_failed_tasks between them) next to a session r2 that calls the
\* functions of app/repo.py directly, as the tests do, so that the passes and
\* the resets meet tasks in every status.
StatusKeys == {<<1, "F3X">>, <<2, "F3X">>}
StatusSetups ==
    {<<"ingested", NULL, NULL>>, <<"skipped", NULL, NULL>>,
     <<"failed", "parsing", "error">>}

NextStatus ==
    \/ \E r \in {"r1"} :
        \/ F3XStart(r, {"job"}, {MaxCap}, SummaryFeeds)
        \/ PassItem(r)
        \/ PassClaimInsert(r)
        \/ \E ok \in BOOLEAN, total \in SpecTotals : F3XDownload(r, ok, total)
        \/ \E ok \in BOOLEAN : F3XParse(r, ok)
        \/ F3XUpsertInsert(r)
        \/ IEAfterF3X(r)
        \/ IEFetch(r, {<<>>})
        \/ PassEnd(r)
        \/ NextRun(r)
        \/ RetryReset(r, FilingIds)
    \/ \E r \in {"r2"} :
        \/ \E k \in StatusKeys : LClaim(r, k)
        \/ LClaimInsert(r)
        \/ \E k \in StatusKeys, c \in StatusSetups : LUpdateStatus(r, k, c)
        \/ LResetFailed(r, FilingIds)
        \/ LCommit(r)
        \/ LRollback(r)

SpecStatus == Init /\ [][NextStatus]_vars

\* ------------------------------------------------- get_or_create_backfill_job
\* Calls of get_or_create_backfill_job on its own, next to backfill runs
\* that change the fields of the job.
GetKindOf(ft) == IF ft = "3x" THEN "get3x" ELSE "gete"
GetTypeOf(me) == IF me.kind = "get3x" THEN "3x" ELSE "e"

\* get_or_create_backfill_job, lines 21-27 and 37: the select of the key; a
\* row that is found is returned as it is
GetJobSelect(r, ft) ==
    /\ run[r] = Idle
    /\ ncalls < MaxCalls
    /\ ncalls' = ncalls + 1
    /\ IF jobs[ft].rows > 0
       THEN /\ ev' = [NoEv EXCEPT !.op = "get_job", !.r = r, !.ft = ft,
                         !.res = TRUE, !.ins = FALSE]
            /\ UNCHANGED run
       ELSE /\ ev' = NoEv
            /\ run' = [run EXCEPT ![r] = [Idle EXCEPT !.kind = GetKindOf(ft),
                          !.pc = "job_create"]]
    /\ UNCHANGED <<tasks, events, filings, sess, text, dl, jobs, cool, loop>>

\* get_or_create_backfill_job, lines 28-37: no row was found; a "pending"
\* row is added and committed, and returned.  Nothing keeps a second row of
\* the key out: res tells whether the returned row is the one the select of
\* the key returns
GetJobCreate(r) ==
    /\ run[r].kind \in {"get3x", "gete"} /\ run[r].pc = "job_create"
    /\ LET ft == GetTypeOf(run[r]) IN
         /\ jobs' = [jobs EXCEPT ![ft] =
                        IF @.rows = 0
                        THEN [NoJob EXCEPT !.status = "pending", !.rows = 1]
                        ELSE [@ EXCEPT !.rows = @ + 1]]
         /\ ev' = [NoEv EXCEPT !.op = "get_job", !.r = r, !.ft = ft,
                      !.res = (jobs[ft].rows = 0), !.ins = TRUE]
    /\ run' = [run EXCEPT ![r] = Idle]
    /\ UNCHANGED <<tasks, events, filings, sess, text, dl, ncalls, cool, loop>>

NextJob ==
    \E r \in Runs :
        \/ \E ft \in {"3x", "e"} : GetJobSelect(r, ft)
        \/ GetJobCreate(r)
        \/ \E ft \in {"3x", "e"}, stale \in BOOLEAN : BFTrigger(r, ft, stale)
        \/ BFStart(r)
        \/ BFPage(r, <<>>)
        \/ BFRaises(r)

SpecJob == Init /\ [][NextJob]_vars

\* ------------------------------------------------------------- pagination
\* Backfill threads alone, over every page count a response can report.  A
\* thread that can take a step takes one: its requests have timeouts and its
\* loops are over finite lists.
PagingResults == {<<>>, <<BFItemOf(1)>>}
PagingLines == {<<1>>}
PagingTotals == {NoTotal, 60}
PagingApiTotals == {NoTotal, 40}

NextPaging ==
    \E r \in Runs :
        \/ \E ft \in {"3x", "e"} : BFTrigger(r, ft, FALSE)
        \/ BFStart(r)
        \/ \E results \in PagingResults : BFPage(r, results)
        \/ BFRaises(r)
        \/ \E pages \in PageCounts : BFItem(r, pages)
        \/ BFClaimInsert(r)
        \/ \E o \in {"ok", "parse_fail", "fail"}, total \in PagingTotals,
              api_total \in PagingApiTotals : BF3XProcess(r, o, total, api_total)
        \/ BF3XUpsertInsert(r)
        \/ \E ok \in BOOLEAN, lines \in PagingLines \cup {<<>>} : BFEDownload(r, ok, lines)
        \/ BFEEvent(r)
        \/ BFEEventInsert(r)

SpecPaging == Init /\ [][NextPaging]_vars /\ WF_vars(NextPaging)

\* ------------------------------------------ extract_schedule_e_best_effort
\* The generator of app/fec_parse.py on its own: the decoded filing (or the
\* failure to decode it) and the rows of the raw text are its input, the
\* records it yields, in order, its output.  Field values are strings.

\* the keys of the dict the structured tier yields, lines 241-254
StructuredNames ==
    {"expenditure_date", "amount", "support_oppose", "candidate_id",
     "candidate_name", "candidate_office", "candidate_state",
     "candidate_district", "candidate_party", "election_code", "purpose",
     "payee_name"}

\* mutant: the fallback record has no candidate_party
FallbackNames_NoParty ==
    {"expenditure_date", "amount", "support_oppose", "candidate_id",
     "candidate_name", "candidate_office", "candidate_state",
     "candidate_district", "election_code", "purpose", "payee_name"}

\* the keys of the dict the fallback tier yields, lines 296-309
FallbackNames ==
    {"expenditure_date", "amount", "support_oppose", "candidate_id",
     "candidate_name", "candidate_office", "candidate_state",
     "candidate_district", "candidate_party", "election_code", "purpose",
     "payee_name"}

\* the keys run_ie_schedule_e reads with fields[...], ingest_ie.py lines 84-95
FieldsRead ==
    {"expenditure_date", "amount", "support_oppose", "candidate_id",
     "candidate_name", "candidate_office", "candidate_state",
     "candidate_district", "candidate_party", "election_code", "purpose",
     "payee_name"}

\* Schedule E items of a decoded filing.  An item whose name part is not a
\* string makes p.strip() raise (lines 226-227); a missing key reads as None
GoodItem(n, amount, code) ==
    [id |-> n, dissemination_date |-> "2024-01-02", expenditure_amount |-> amount,
     support_oppose_code |-> code, candidate_id_number |-> "H0", first_name |-> "ANN",
     bad |-> FALSE]
BadItem(n) == [GoodItem(n, "250.0", "S") EXCEPT !.first_name = "7", !.bad = TRUE]
SEItems == {GoodItem(1, "250.0", "S"), GoodItem(2, NULL, "O"), BadItem(3)}

\* rows of the raw text as csv.reader splits them (iter_pipe_rows)
RawRows ==
    {<<"SE", "01/02/2024", "1,500", "S">>, <<"SE", "0.5", "O">>,
     <<"SA11", "250">>, <<"SE">>}

\* _parse_mmddyyyy, lines 330-335
ParseDate(token) == IF token = "01/02/2024" THEN "2024-01-02" ELSE NULL

\* lines 281-289: commas removed, a decimal number of magnitude >= 1.0
ParseAmount(token) ==
    CASE token = "1,500" -> "1500.0"
      [] token = "250" -> "250.0"
      [] OTHER -> NULL

\* lines 291-294
SupportOppose(token) == IF token \in {"S", "O"} THEN token ELSE NULL

\* what a token is worth for a field of the fallback record
TokenValue(field, token) ==
    CASE field = "expenditure_date" -> ParseDate(token)
      [] field = "amount" -> ParseAmount(token)
      [] field = "support_oppose" -> SupportOppose(token)
      [] OTHER -> NULL

RECURSIVE FirstOf(_, _, _)
\* lines 276-294: the value of the first token of row, from position i on,
\* that has one for the field
FirstOf(row, i, field) ==
    IF i > Len(row) THEN NULL
    ELSE IF TokenValue(field, row[i]) # NULL THEN TokenValue(field, row[i])
    ELSE FirstOf(row, i + 1, field)

\* the record of the structured tier for one item, lines 194-254
StructuredFields(item) ==
    [n \in StructuredNames |->
        CASE n = "expenditure_date" -> item.dissemination_date
          [] n = "amount" -> item.expenditure_amount
          [] n = "support_oppose" -> item.support_oppose_code
          [] n = "candidate_id" -> item.candidate_id_number
          [] n = "candidate_name" -> item.first_name
          [] OTHER -> NULL]

\* the record of the fallback tier for one row, lines 269-309
FallbackFields(row) ==
    [n \in FallbackNames |->
        FirstOf(row, 1, n)]

RECURSIVE StructuredTier(_, _)
\* the records yielded by the loop of lines 193-254 from item i on; the loop
\* ends at the first item that raises
StructuredTier(items, i) ==
    IF i > Len(items) \/ items[i].bad THEN <<>>
    ELSE LET record == [tier |-> "structured", raw_line |-> <<"item", items[i].id>>,
                        fields |-> StructuredFields(items[i])]
         IN <<record>> \o StructuredTier(items, i + 1)

RECURSIVE FallbackTier(_, _)
\* the records yielded by the loop of lines 264-309: one for every row whose
\* first field starts with "SE"
FallbackTier(rows, i) ==
    IF i > Len(rows) THEN <<>>
    ELSE LET record == [tier |-> "fallback", raw_line |-> rows[i],
                        fields |-> FallbackFields(rows[i])]
         IN (IF rows[i][1] = "SE" THEN <<record>> ELSE <<>>)
            \o FallbackTier(rows, i + 1)

\* the decoding of the structured tier raised: fecfile.loads (decoded =
\* FALSE) or a bad item; caught at lines 260-261
StructuredRaises(decoded, items) ==
    ~decoded \/ \E i \in 1..Len(items) : items[i].bad

\* extract_schedule_e_best_effort, lines 183-309: the records of the
\* structured tier; the function returns after them only if the tier did not
\* raise and the filing had Schedule E items (lines 257-258); otherwise the
\* records of the fallback follow
extract_schedule_e_best_effort(decoded, items, rows) ==
    LET structured == IF decoded THEN StructuredTier(items, 1) ELSE <<>>
    IN IF ~StructuredRaises(decoded, items) /\ items # <<>>
       THEN structured
       ELSE structured \o FallbackTier(rows, 1)

MaxSE == 2

\* one call of the generator, run to its end
Extract(decoded, items, rows) ==
    /\ ncalls < MaxCalls
    /\ ncalls' = ncalls + 1
    /\ ~decoded => items = <<>>
    /\ ev' = [NoEv EXCEPT !.op = "extract",
                 !.arg = <<decoded, items, rows>>,
                 !.out = extract_schedule_e_best_effort(decoded, items, rows)]
    /\ UNCHANGED <<tasks, events, filings, sess, run, text, dl, jobs, cool, loop>>

NextExtract ==
    \E decoded \in BOOLEAN, items \in SeqsUpTo(SEItems, MaxSE),
       rows \in SeqsUpTo(RawRows, MaxSE) : Extract(decoded, items, rows)

SpecExtract == Init /\ [][NextExtract]_vars

\* ------------------------------------------------------ _maybe_run_ingestion
\* Request threads of one process calling _maybe_run_ingestion while the
\* clock advances.

\* mutant: the lock is not taken
CanAcquire_NoLock(lock) == TRUE

\* "with _ingestion_lock:", line 1205
CanAcquire(lock) == lock = "free"

\* lines 1206-1209: the call is refused while the cooldown has not passed
InCooldown(last, now) ==
    last # NoTime /\ now - last < INGESTION_COOLDOWN_MINUTES

\* time passes
Tick ==
    /\ cool.clock < MaxClock
    /\ cool' = [cool EXCEPT !.clock = @ + 1]
    /\ ev' = NoEv
    /\ UNCHANGED <<tasks, events, filings, sess, run, text, dl, jobs, ncalls, loop>>

\* line 1203: now = datetime.now(timezone.utc), read before the lock is taken
CoolCall(t) ==
    /\ cool.pc[t] = "idle"
    /\ cool' = [cool EXCEPT !.pc[t] = "lock", !.now[t] = cool.clock]
    /\ ev' = NoEv
    /\ UNCHANGED <<tasks, events, filings, sess, run, text, dl, jobs, ncalls, loop>>

\* line 1205: the lock is acquired
CoolAcquire(t) ==
    /\ cool.pc[t] = "lock"
    /\ CanAcquire(cool.lock)
    /\ cool' = [cool EXCEPT !.pc[t] = "check", !.lock = t]
    /\ ev' = NoEv
    /\ UNCHANGED <<tasks, events, filings, sess, run, text, dl, jobs, ncalls, loop>>

\* lines 1206-1209: the test of the cooldown; a refused call leaves the with
\* block, which releases the lock, and returns False
CoolCheck(t) ==
    /\ cool.pc[t] = "check"
    /\ IF InCooldown(cool.last, cool.now[t])
       THEN /\ cool' = [cool EXCEPT !.pc[t] = "idle", !.lock = "free"]
            /\ ev' = [NoEv EXCEPT !.op = "maybe_run", !.r = t, !.res = FALSE]
       ELSE /\ cool' = [cool EXCEPT !.pc[t] = "set"]
            /\ ev' = NoEv
    /\ UNCHANGED <<tasks, events, filings, sess, run, text, dl, jobs, ncalls, loop>>

\* line 1210: _last_ingestion_time = now, and the end of the with block
CoolSet(t) ==
    /\ cool.pc[t] = "set"
    /\ cool' = [cool EXCEPT !.pc[t] = "start", !.last = cool.now[t], !.lock = "free"]
    /\ ev' = NoEv
    /\ UNCHANGED <<tasks, events, filings, sess, run, text, dl, jobs, ncalls, loop>>

\* lines 1212-1233: the background thread is started, the call returns True
CoolStart(t) ==
    /\ cool.pc[t] = "start"
    /\ cool' = [cool EXCEPT !.pc[t] = "idle", !.started = Append(@, cool.now[t])]
    /\ ev' = [NoEv EXCEPT !.op = "maybe_run", !.r = t, !.res = TRUE]
    /\ UNCHANGED <<tasks, events, filings, sess, run, text, dl, jobs, ncalls, loop>>

NextCooldown ==
    \/ Tick
    \/ \E t \in Threads :
        \/ CoolCall(t)
        \/ CoolAcquire(t)
        \/ CoolCheck(t)
        \/ CoolSet(t)
        \/ CoolStart(t)

SpecCooldown == Init /\ [][NextCooldown]_vars

\* ------------------------------------------------------------------ run_job
\* The batch loop of scripts/ingest_job.py.  The two passes of an iteration
\* are taken by what they hand back to run_job: run_f3x returns an F3XResult
\* or raises, run_ie_schedule_e returns (new_filings, new_events) or raises.

\* the values f3x_new can hold: the int 0 of line 69 or the F3XResult that
\* run_f3x returns (ingest_f3x.py lines 17-22 and 143), with its new_count
PyInt(n) == [type |-> "int", n |-> n]
F3XResult(new_count) == [type |-> "F3XResult", n |-> new_count]

\* what the passes can hand back: at most max_per_run new filings each
F3XOutcomes == [raised : BOOLEAN, new : 0..MaxCap]
IEOutcomes == [raised : BOOLEAN, filings : 0..MaxCap, events : 0..1]

\* Python's int + x, x == int and x >= int for x an int or an F3XResult: the
\* dataclass defines __eq__ for its own class only and neither __radd__ nor
\* an ordering, so + and >= raise TypeError and == is False
PyAddRaises(x) == x.type # "int"
PyEq(x, n) == x.type = "int" /\ x.n = n
PyGeRaises(x) == x.type # "int"
PyGe(x, n) == x.n >= n

\* lines 39-51: the job starts (a new process each time)
JobStart ==
    /\ loop.pc \in {"idle", "finished", "TypeError"}
    /\ loop' = [NoLoop EXCEPT !.pc = "loop"]
    /\ ev' = NoEv
    /\ UNCHANGED <<tasks, events, filings, sess, run, text, dl, jobs, ncalls, cool>>

\* lines 53-110: one iteration of the while loop.  late: the runtime limit of
\* line 58 is reached; max_per_run: the configured cap; f3x, ie: what the two
\* passes hand back
JobIteration(late, max_per_run, f3x, ie) ==
    /\ loop.pc = "loop"
    /\ loop.iteration < MAX_ITERATIONS
    /\ ~f3x.raised => f3x.new <= max_per_run
    /\ f3x.raised => f3x.new = 0
    /\ ~ie.raised => ie.filings <= max_per_run /\ (ie.filings = 0 => ie.events = 0)
    /\ ie.raised => ie.filings = 0 /\ ie.events = 0
    /\ LET f3x_new == IF f3x.raised THEN PyInt(0) ELSE F3XResult(f3x.new)
           \* lines 76-79: "total_f3x += f3x_new" inside the try
           total_f3x == IF f3x.raised \/ PyAddRaises(f3x_new)
                        THEN loop.total_f3x ELSE loop.total_f3x + f3x_new.n
           ie_filings == ie.filings
           counted == [loop EXCEPT !.iteration = @ + 1,
                          !.total_f3x = total_f3x,
                          !.total_ie_events = @ + ie.events]
       IN  IF late
           THEN loop' = [loop EXCEPT !.iteration = @ + 1, !.pc = "alert"]
           ELSE IF PyEq(f3x_new, 0) /\ ie_filings = 0
           THEN loop' = [counted EXCEPT !.pc = "alert"]
           ELSE IF PyGeRaises(f3x_new)
           THEN loop' = [counted EXCEPT !.pc = "TypeError"]
           ELSE IF PyGe(f3x_new, max_per_run) \/ ie_filings >= max_per_run
           THEN loop' = counted
           ELSE loop' = [counted EXCEPT !.pc = "alert"]
    /\ ev' = [NoEv EXCEPT !.op = "iteration",
                 !.arg = <<late, max_per_run, f3x, ie>>]
    /\ UNCHANGED <<tasks, events, filings, sess, run, text, dl, jobs, ncalls, cool>>

\* line 53: the while condition fails after MAX_ITERATIONS iterations
JobLoopEnd ==
    /\ loop.pc = "loop"
    /\ loop.iteration >= MAX_ITERATIONS
    /\ loop' = [loop EXCEPT !.pc = "alert"]
    /\ ev' = NoEv
    /\ UNCHANGED <<tasks, events, filings, sess, run, text, dl, jobs, ncalls, cool>>

\* lines 112-209: "Job complete", the alert step (its errors are caught) and
\* "Job finished successfully"; res: whether the alerts were looked at
JobAlert ==
    /\ loop.pc = "alert"
    /\ loop' = [loop EXCEPT !.pc = "finished"]
    /\ ev' = [NoEv EXCEPT !.op = "alert",
                 !.res = (loop.total_f3x > 0 \/ loop.total_ie_events > 0)]
    /\ UNCHANGED <<tasks, events, filings, sess, run, text, dl, jobs, ncalls, cool>>

NextJobLoop ==
    \/ JobStart
    \/ \E late \in BOOLEAN, max_per_run \in 1..MaxCap,
          f3x \in F3XOutcomes, ie \in IEOutcomes :
            JobIteration(late, max_per_run, f3x, ie)
    \/ JobLoopEnd
    \/ JobAlert

SpecJobLoop == Init /\ [][NextJobLoop]_vars

\* ------------------------------------------------------------------ claims
\* the task rows of every key other than k, committed and pending
OtherTasks(k) == <<[x \in Keys \ {k} |-> tasks[x]],
                   [t \in Runs |-> [x \in Keys \ {k} |-> sess[t].tasks[x]]]>>

OtherEvents(e) == <<[x \in EventIds \ {e} |-> events[x]],
                    [t \in Runs |-> [x \in EventIds \ {e} |-> sess[t].events[x]]]>>

AllTasks == <<tasks, [t \in Runs |-> sess[t].tasks]>>
AllEvents == <<events, [t \in Runs |-> sess[t].events]>>

\* the step completes a claim_filing call on key k / an insert_ie_event call
\* on event_id e
ClaimDone(k) == ev'.op = "claim" /\ ev'.fid = k[1] /\ ev'.src = k[2]
EventDone(e) == ev'.op = "event" /\ sha256_hex(ev'.fid, ev'.line) = e

\* C1: a claim_filing call returns True exactly when the store holds no row
\* for the key (the first call); it then creates the one row of the key, with
\* status "claimed"; a call that returns False creates nothing and leaves
\* every row, the existing one included, as it was, whatever its status.
\* No key ever has two rows.
C1_Step ==
    \A k \in Keys : ClaimDone(k) =>
        /\ ev'.res = (TaskRowCount(k) = 0)
        /\ ev'.res => /\ sess'[ev'.r].tasks[k] =
                            [row |-> ClaimedRow, ins |-> TRUE, dirty |-> TRUE]
                      /\ TaskRowCount(k)' = 1
                      /\ OtherTasks(k)' = OtherTasks(k)
        /\ ~ev'.res => AllTasks' = AllTasks

C1_ClaimIdempotent ==
    /\ [][C1_Step]_vars
    /\ [](\A k \in Keys : TaskRowCount(k) <= 1)

\* C1 witness: a later claim of a key whose row is already "ingested" has
\* returned False
C1_Witness ==
    /\ ev.op = "claim" /\ ~ev.res
    /\ tasks[<<ev.fid, ev.src>>].status = "ingested"

\* C5: a claim of (id, A) depends on and touches the rows of source A only:
\* it succeeds exactly when (id, A) has no row, whether or not (id, B) has
\* one, and the rows of (id, B) stay as they were.
C5_Step ==
    \A k \in Keys : ClaimDone(k) =>
        /\ ev'.res = (tasks[k] = NoRow /\ \A t \in Runs : ~sess[t].tasks[k].dirty)
        /\ \A src \in Sources \ {k[2]} :
              /\ tasks'[<<k[1], src>>] = tasks[<<k[1], src>>]
              /\ \A t \in Runs :
                    sess'[t].tasks[<<k[1], src>>] = sess[t].tasks[<<k[1], src>>]

C5_SourcesIndependent == [][C5_Step]_vars

\* C5 witness: the claim of (id, A) has succeeded while (id, B) has a row
C5_Witness ==
    /\ ev.op = "claim" /\ ev.res
    /\ \E src \in Sources \ {ev.src} : TaskRowCount(<<ev.fid, src>>) = 1

\* C6: an insert_ie_event call returns True exactly when the store holds no
\* row with the event_id; it then stores the given row; a call that returns
\* False stores nothing and changes no field of the stored row.
C6_Step ==
    \A e \in EventIds : EventDone(e) =>
        /\ ev'.res = (EventRowCount(e) = 0)
        /\ ev'.res => /\ EventRowCount(e)' = 1
                      /\ sess'[ev'.r].events[e].dirty
                      /\ sess'[ev'.r].events[e].row.fields = run[ev'.r].fields
                      /\ OtherEvents(e)' = OtherEvents(e)
        /\ ~ev'.res => AllEvents' = AllEvents

C6_EventInsertOnly == [][C6_Step]_vars

\* C6 witness: a second insert of a stored event_id has returned False at
\* the existence check
C6_Witness ==
    /\ ev.op = "event" /\ ~ev.res /\ ~ev.ins
    /\ events[sha256_hex(ev.fid, ev.line)].fields = "feed"

\* C7: an insert that passed the existence check and then meets the row of a
\* concurrent run returns False without raising; the insert that finds no
\* row returns True; no event_id ever has two rows.
C7_Step ==
    \A e \in EventIds : (EventDone(e) /\ ev'.ins) =>
        /\ ~ev'.raised
        /\ ev'.res = (EventRowCount(e) = 0)
        /\ EventRowCount(e)' = 1

C7_EventRace ==
    /\ [][C7_Step]_vars
    /\ [](\A e \in EventIds : EventRowCount(e) <= 1)

\* C7 witness: both runs passed the existence check, one inserted and
\* committed, the other's insert has returned False
C7_Witness ==
    /\ ev.op = "event" /\ ev.ins /\ ~ev.res
    /\ events[sha256_hex(ev.fid, ev.line)] # NoEvent

\* index of the first item of the feed dated before today; Len + 1 if none is
FirstOld(feed) ==
    IF \E i \in 1..Len(feed) : feed[i].day = "old"
    THEN CHOOSE i \in 1..Len(feed) :
            feed[i].day = "old" /\ \A j \in 1..(i - 1) : feed[j].day # "old"
    ELSE Len(feed) + 1

InItemLoop(r) ==
    /\ run[r].kind \in {"f3x", "ie"}
    /\ run[r].pc \in {"loop", "claim_ins", "download", "parse", "upsert_ins", "event",
                     "event_ins", "end"}
    /\ run[r].feed # <<>>

\* C9: in a feed pass no claim_filing call is made, and no task exists, for
\* the first item dated before today or for any item after it; the items
\* before it are all visited: a pass that leaves a feed below its cap without
\* raising leaves it exactly at that item (or at the end of the feed).
C9_Step ==
    \A r \in Runs :
        /\ (ev'.op = "claim" /\ ev'.r = r /\ run[r].kind \in {"f3x", "ie"})
               => run[r].idx < FirstOld(run[r].feed)
        /\ (/\ run[r].kind \in {"f3x", "ie"} /\ run[r].pc = "loop"
            /\ run'[r].pc \in {"fetch", "end"}
            /\ run[r].new < run[r].cap)
               => /\ run[r].idx = FirstOld(run[r].feed)
                  /\ run[r].seen = 1..(run[r].idx - 1)

C9_NoTaskFromOldOn ==
    \A r \in Runs : InItemLoop(r) =>
        \A f \in FilingIds :
            sess[r].tasks[<<f, SourceOf(run[r])>>].dirty =>
                \E j \in 1..(FirstOld(run[r].feed) - 1) : run[r].feed[j].fid = f

C9_DayBoundaryStop == [][C9_Step]_vars /\ []C9_NoTaskFromOldOn

\* a pass has ingested the first item, stopped at the old second item, and the
\* third item, of today and of another filing, has no task
C9_Witness ==
    \E r \in Runs :
        /\ run[r].kind \in {"f3x", "ie"} /\ run[r].pc = "end" /\ ~run[r].raised
        /\ Len(run[r].feed) = 3 /\ FirstOld(run[r].feed) = 2
        /\ run[r].feed[3].day = "today" /\ run[r].feed[3].fid # 0
        /\ run[r].feed[3].fid # run[r].feed[1].fid
        /\ run[r].new = 1 /\ run[r].new < run[r].cap
        /\ GetTask(sess, r, <<run[r].feed[3].fid, SourceOf(run[r])>>) = NoRow

\* the sources a pass claims under
PassSources(me) == IF me.kind = "f3x" THEN {"F3X"} ELSE IEFeedSet

\* the tasks the pass of run r has brought to "ingested"
IngestedBy(r) ==
    {k \in Keys : /\ k[2] \in PassSources(run[r])
                  /\ sess[r].tasks[k].dirty
                  /\ sess[r].tasks[k].row.status = "ingested"}

\* C10: a feed pass calls claim_filing only while it has ingested fewer than
\* cap filings; the filings it has brought to "ingested", under all feed URLs
\* of the call together, are as many as its counter says and never more
\* than cap.
C10_Step ==
    \A r \in Runs :
        (ev'.op = "claim" /\ ev'.r = r /\ run[r].kind \in {"f3x", "ie"})
            => run[r].new < run[r].cap

C10_Counted ==
    \A r \in Runs :
        (run[r].kind \in {"f3x", "ie"} /\ run[r].pc \notin {"idle", "done", "dead"})
            => /\ run[r].new <= run[r].cap
               /\ Cardinality(IngestedBy(r)) = run[r].new

C10_PerRunCap == [][C10_Step]_vars /\ []C10_Counted

\* a run_ie_schedule_e call has reached its cap with filings of both feed
\* URLs, and an unclaimed item of today is left in the feed
C10_Witness ==
    \E r \in Runs :
        /\ run[r].kind = "ie" /\ run[r].pc = "end" /\ ~run[r].raised
        /\ run[r].new = run[r].cap /\ run[r].cap = MaxCap
        /\ \E k1, k2 \in IngestedBy(r) : k1[2] # k2[2]
        /\ run[r].idx <= Len(run[r].feed)
        /\ run[r].feed[run[r].idx].day = "today"
        /\ run[r].feed[run[r].idx].fid # 0
        /\ GetTask(sess, r, <<run[r].feed[run[r].idx].fid, SourceOf(run[r])>>) = NoRow

\* the runs that hold a claim on key k and are at work on its filing
Processing(k) ==
    {r \in Runs : /\ run[r].pc \in {"download", "parse", "upsert_ins", "event", "event_ins"}
                  /\ run[r].fid = k[1] /\ run[r].src = k[2]}

\* C2: of the runs that call claim_filing for one key at the same time, also
\* when both have passed the existence check, at most one holds the claim and
\* works on the filing at any time; a call that reaches the INSERT never
\* raises, it returns True exactly when no other row of the key is in the
\* store, and a call that returns False changes nothing and leaves its run at
\* the next item of its feed.
C2_Step ==
    \A r \in Runs, k \in Keys :
        (ClaimDone(k) /\ ev'.r = r /\ ev'.ins /\ run[r].kind \in {"f3x", "ie", "bf3x"})
            => /\ ~ev'.raised
               /\ ev'.res = (TaskRowCount(k) = 0)
               /\ ~ev'.res => /\ sess' = sess /\ tasks' = tasks
                              /\ run'[r].pc \in {"loop", "bf_loop"}
                              /\ run'[r].idx = run[r].idx + 1
                              /\ run'[r].feed = run[r].feed

C2_OneClaimant ==
    \A k \in Keys : TaskRowCount(k) <= 1 /\ Cardinality(Processing(k)) <= 1

C2_ClaimRace == [][C2_Step]_vars /\ []C2_OneClaimant

\* a run that had passed the existence check has lost the INSERT to the run
\* whose claim is now committed, and stands at the next item of its feed
C2_Witness ==
    \E r \in Runs :
        /\ ev.op = "claim" /\ ev.r = r /\ ev.ins /\ ~ev.res /\ ~ev.raised
        /\ tasks[<<ev.fid, ev.src>>] # NoRow
        /\ run[r].pc = "loop" /\ run[r].idx = 2 /\ Len(run[r].feed) = 2
        /\ run[r].feed[1].fid = ev.fid

\* C3: no filing is downloaded more than once under one ingestion source
C3_AtMostOnce == \A k \in FilingIds \X DlSources : dl[k] <= 1

\* the key a dead run was at work on when it died
CrashedOn(t) == <<run[t].fid, run[t].src>>

CrashedInFiling(t) ==
    run[t].pc = "dead" /\ run[t].fid # 0 /\ run[t].src \in Sources

\* C4: the claim of a run that died at work on a filing is still in the
\* store, and every later claim_filing call for its key returns False
C4_Step ==
    \A t \in Runs :
        CrashedInFiling(t) => (ClaimDone(CrashedOn(t)) => ~ev'.res)

C4_ClaimSurvivesCrash ==
    /\ [](\A t \in Runs : CrashedInFiling(t) => TaskRowCount(CrashedOn(t)) >= 1)
    /\ [][C4_Step]_vars

\* C8: every insert_ie_event call of a feed pass or of a backfill uses the
\* event_id sha256_hex(filing_id | raw line) of the line at hand, whatever the
\* path; a line whose event the session already sees is not inserted again
\* and changes no row, so a filing whose lines are all stored yields no new
\* row.
C8_Step ==
    \A r \in Runs :
        (ev'.op = "event" /\ ev'.r = r /\ run[r].kind \in {"ie", "bfe"})
            => /\ ev'.fid = run[r].fid
               /\ ev'.line = run[r].lines[run[r].lidx]
               /\ GetEvent(sess, r, sha256_hex(run[r].fid, run[r].lines[run[r].lidx])) # NoEvent
                     => /\ ~ev'.res
                        /\ sess'[r].events = sess[r].events
                        /\ events' = events
                        /\ run'[r].nev = run[r].nev /\ run'[r].new = run[r].new

C8_ReprocessingNoNewEvents == [][C8_Step]_vars

\* run_ie_schedule_e has gone through all lines of a filing whose events a
\* backfill had stored, and has inserted none
C8_Witness ==
    \E r \in Runs :
        /\ run[r].kind = "ie" /\ run[r].pc = "event"
        /\ run[r].lidx > Len(run[r].lines) /\ Len(run[r].lines) = MaxLine
        /\ run[r].nev = 0
        /\ \A i \in 1..Len(run[r].lines) :
               /\ events[sha256_hex(run[r].fid, run[r].lines[i])].fields = "backfill"
               /\ ~sess[r].events[sha256_hex(run[r].fid, run[r].lines[i])].dirty

\* the step is a failed download of run_f3x: the run leaves "download"
\* without having read the file
F3XDownloadFailed(r) ==
    /\ run[r].kind = "f3x" /\ run[r].pc = "download"
    /\ run'[r].kind = "f3x" /\ run'[r].pc # "parse" /\ run'[r].pc # "dead"

\* C11: a download failure of run_f3x for item A leaves A's task "failed"
\* with failed_step "downloading" and the error text, counts one failure and
\* no new filing, and the pass goes on, without raising, with the item after
\* A under the same cap; no item of the feed is passed over: every item with
\* a filing id that the loop has gone past has its task.
C11_Step ==
    \A r \in Runs : F3XDownloadFailed(r) =>
        LET k == <<run[r].fid, "F3X">>
            row == GetTask(sess', r, k)
        IN /\ row.status = "failed" /\ row.failed_step = "downloading"
           /\ row.error_message = "error"
           /\ run'[r].failed = run[r].failed + 1
           /\ run'[r].new = run[r].new /\ run'[r].cap = run[r].cap
           /\ run'[r].pc = "loop" /\ ~run'[r].raised
           /\ run'[r].idx = run[r].idx + 1 /\ run'[r].feed = run[r].feed
           /\ dl' = dl

C11_NoItemLost ==
    \A r \in Runs : (run[r].kind = "f3x" /\ run[r].pc \in {"loop", "end"} /\ ~run[r].raised) =>
        \A j \in 1..Len(run[r].feed) :
            (j < run[r].idx /\ run[r].feed[j].fid # 0)
                => GetTask(sess, r, <<run[r].feed[j].fid, "F3X">>) # NoRow

C11_DownloadFailureIsolated == [][C11_Step]_vars /\ []C11_NoItemLost

\* run_f3x has returned: the first item's download failed, the second item,
\* of another filing, was claimed after it and ingested
C11_Witness ==
    \E r \in Runs :
        /\ run[r].kind = "f3x" /\ run[r].pc = "end" /\ ~run[r].raised
        /\ Len(run[r].feed) >= 2 /\ run[r].idx > 2
        /\ run[r].feed[1].fid # 0 /\ run[r].feed[2].fid # 0
        /\ run[r].feed[1].fid # run[r].feed[2].fid
        /\ run[r].failed = 1 /\ run[r].new = 1
        /\ GetTask(sess, r, <<run[r].feed[1].fid, "F3X">>).status = "failed"
        /\ GetTask(sess, r, <<run[r].feed[1].fid, "F3X">>).failed_step = "downloading"
        /\ GetTask(sess, r, <<run[r].feed[2].fid, "F3X">>).status = "ingested"

\* C12: a generic download error of run_ie_schedule_e for a claimed filing is
\* caught: the pass goes on without raising, the filing is not counted as
\* new, and its task is "failed" with failed_step "downloading" and the
\* error text.
C12_Step ==
    \A r \in Runs : (ev'.op = "error" /\ ev'.r = r /\ run[r].kind = "ie") =>
        LET row == GetTask(sess', r, <<run[r].fid, run[r].src>>)
        IN /\ ~run'[r].raised
           /\ run'[r].new = run[r].new
           /\ row.status = "failed" /\ row.failed_step = "downloading"
           /\ row.error_message = "error"

C12_IEDownloadFailureCaught == [][C12_Step]_vars

\* C13: when the size probe of run_ie_schedule_e reports a size above the
\* ceiling, the body is not downloaded, the task is "skipped" with
\* skip_reason "too_large" and the probed size, and the pass goes on with the
\* next item without raising.
C13_Step ==
    \A r \in Runs : (ev'.op = "too_large" /\ ev'.r = r /\ run[r].kind = "ie") =>
        LET row == GetTask(sess', r, <<run[r].fid, run[r].src>>)
        IN /\ dl' = dl
           /\ row.status = "skipped" /\ row.skip_reason = "too_large"
           /\ row.file_size_mb = OverSize
           /\ ~run'[r].raised
           /\ run'[r].pc = "loop" /\ run'[r].idx = run[r].idx + 1

C13_OversizeSkipped == [][C13_Step]_vars

\* run r is at an item of today's feed whose F3X task is in the store as
\* "claimed": a failed task that reset_failed_tasks has reset
MeetsResetTask(r) ==
    /\ run[r].kind = "f3x" /\ run[r].pc = "loop"
    /\ run[r].idx <= Len(run[r].feed)
    /\ ItemGuard(run[r].feed[run[r].idx], run[r].new, run[r].cap) = "claim"
    /\ tasks[<<run[r].feed[run[r].idx].fid, "F3X">>].status = "claimed"
    /\ ~sess[r].tasks[<<run[r].feed[run[r].idx].fid, "F3X">>].dirty

\* C14: a feed pass that meets in its feed a filing whose failed task has
\* been reset to "claimed" takes the filing up again: it goes on to the
\* download of that filing and does not pass it over.
C14_Step ==
    \A r \in Runs : (MeetsResetTask(r) /\ run'[r] # run[r]) =>
        /\ run'[r].pc = "download"
        /\ run'[r].fid = run[r].feed[run[r].idx].fid
        /\ run'[r].skipped = run[r].skipped

C14_RetryAfterReset == [][C14_Step]_vars

\* the tasks a reset_failed_tasks call of session r with the given
\* filing_ids finds: those the session sees as "failed", of these filings
SeenFailed(r, ids) ==
    {k \in Keys : k[1] \in ids /\
        (IF sess[r].tasks[k].dirty THEN sess[r].tasks[k].row ELSE tasks[k]).status = "failed"}

\* C15: reset_failed_tasks changes exactly the tasks that are "failed" (and
\* of the given filing_ids, when given): each becomes "claimed" with
\* failed_step and error_message null and its other fields as they were; the
\* call returns their number; every other task row, of this session, of the
\* other sessions and in the table, stays as it was.
C15_Step ==
    (ev'.op = "reset") =>
        LET r == ev'.r
            hit == SeenFailed(r, ev'.ids)
        IN /\ ev'.line = Cardinality(hit)
           /\ \A k \in hit :
                 LET old == GetTask(sess, r, k)
                     new == sess'[r].tasks[k]
                 IN /\ new.dirty
                    /\ new.row.status = "claimed"
                    /\ new.row.failed_step = NULL /\ new.row.error_message = NULL
                    /\ new.row.skip_reason = old.skip_reason
                    /\ new.row.file_size_mb = old.file_size_mb
           /\ \A k \in Keys \ hit : sess'[r].tasks[k] = sess[r].tasks[k]
           /\ \A t \in Runs \ {r} : sess'[t] = sess[t]
           /\ tasks' = tasks /\ events' = events

C15_ResetExactlyFailed == [][C15_Step]_vars

\* a reset restricted to filing 1 has reset the one failed task of filing 1
C15_Witness ==
    /\ ev.op = "reset" /\ ev.ids = {1} /\ ev.line = 1
    /\ \E k \in Keys : /\ k[1] = 1
                       /\ sess[ev.r].tasks[k].dirty
                       /\ sess[ev.r].tasks[k].row.status = "claimed"

\* a reset restricted to filing 1 has left the failed task of filing 2 alone
C15_WitnessOther ==
    /\ ev.op = "reset" /\ ev.ids = {1} /\ ev.line = 0
    /\ \E k \in Keys : /\ k[1] = 2
                       /\ sess[ev.r].tasks[k].dirty
                       /\ sess[ev.r].tasks[k].row.status = "failed"

\* C16: run_f3x and run_ie_schedule_e never raise to their caller, whatever
\* fails inside the pass
C16_PassNeverRaises ==
    \A r \in Runs : run[r].kind \in {"f3x", "ie"} => ~run[r].raised

\* the control points of a backfill execution between its start and its end
BFActivePcs ==
    {"bf_page", "bf_loop", "claim_ins", "download", "upsert_ins", "event", "event_ins"}

\* C17: a job that has been completed stays "completed"; a trigger request
\* for it is refused and starts nothing, and a backfill invocation that finds
\* it completed returns at once: no page is requested, no filing is
\* processed, nothing is written, and no field of the job changes.
C17_Step ==
    /\ \A ft \in {"3x", "e"} :
          (ev'.op = "trigger" /\ ev'.ft = ft /\ jobs[ft].status = "completed")
              => /\ ~ev'.res
                 /\ run' = run /\ jobs' = jobs
                 /\ <<tasks, events, filings, sess, dl>>' = <<tasks, events, filings, sess, dl>>
    /\ \A r \in Runs :
          (/\ run[r].kind \in {"bf3x", "bfe"} /\ run[r].pc = "bf_start"
           /\ jobs[TypeOf(run[r])].status = "completed"
           /\ run'[r] # run[r])
              => /\ run'[r].pc \notin BFActivePcs
                 /\ jobs' = jobs
                 /\ <<tasks, events, filings, sess, dl>>' = <<tasks, events, filings, sess, dl>>

C17_CompletedStays ==
    \A ft \in {"3x", "e"} : jobs[ft].completed_at => jobs[ft].status = "completed"

C17_CompletedIsFinal == [][C17_Step]_vars /\ []C17_CompletedStays

\* C18: a trigger request that finds the job "running" resets it to
\* "pending" and starts a fresh run when the job started more than 10 minutes
\* ago; when it started less than 10 minutes ago the request changes nothing
\* and starts nothing.
C18_Step ==
    \A ft \in {"3x", "e"} :
        (ev'.op = "trigger" /\ ev'.ft = ft /\ jobs[ft].status = "running") =>
            IF ev'.stale
            THEN /\ jobs'[ft] = [jobs[ft] EXCEPT !.status = "pending"]
                 /\ ev'.res
                 /\ run'[ev'.r].kind = KindOf(ft) /\ run'[ev'.r].pc = "bf_start"
            ELSE /\ ~ev'.res
                 /\ jobs' = jobs /\ run' = run

C18_WitnessYoung ==
    /\ ev.op = "trigger" /\ ~ev.stale /\ ~ev.res
    /\ jobs[ev.ft].status = "running"
    /\ run[ev.r] = Idle

\* the backfill executions of one (target_date, filing_type) that are under way
ActiveBackfills(ft) ==
    {r \in Runs : run[r].kind = KindOf(ft) /\ run[r].pc \in BFActivePcs}

\* C19: at most one backfill execution of a (target_date, filing_type) is
\* under way at any time
C19_OneActiveBackfill ==
    \A ft \in {"3x", "e"} : Cardinality(ActiveBackfills(ft)) <= 1

\* a backfill function that ends by its own step (the process does not die)
BFEnds(r) ==
    /\ run[r].kind \in {"bf3x", "bfe"}
    /\ run[r].pc \in BFActivePcs
    /\ run'[r].pc = "done"

\* the job as the function leaves it: completed with its date and count, or
\* failed with a message
JobSettled(job, count) ==
    \/ job.status = "completed" /\ job.completed_at /\ job.found = count
    \/ job.status = "failed" /\ job.error_message # NULL

C20_Step ==
    \A r \in Runs :
        /\ (/\ run[r].kind \in {"bf3x", "bfe"} /\ run[r].pc = "bf_start"
            /\ jobs[TypeOf(run[r])].status # "completed"
            /\ run'[r].pc \notin {"bf_start", "dead"})
           => (jobs'[TypeOf(run[r])].status = "running" /\ run'[r].pc \in BFActivePcs)
        /\ BFEnds(r)
           => /\ ev'.op = "bf_return" /\ ev'.r = r
              /\ ~run'[r].raised
              /\ JobSettled(jobs'[TypeOf(run[r])], run[r].new)

\* C20: a call of backfill_date_f3x or backfill_date_e on a job that is not
\* completed marks the job "running", and it ends by returning, never by
\* raising, with the job either "completed" (completed_at and filings_found
\* set) or "failed" with an error message: an exception met while paging or
\* processing a filing is not propagated and the job is not left "running"
C20_BackfillSettlesJob == [][C20_Step]_vars

\* the FilingF3X rows of filing f in the store, committed or pending
FilingRows(f) ==
    {filings[f]} \cup {sess[t].filings[f].row : t \in {x \in Runs : sess[x].filings[f].dirty}}

FlagOf(total) == total # NoTotal /\ total >= receipts_threshold

C21_FlagMatchesTotal ==
    \A f \in FilingIds : \A row \in FilingRows(f) :
        row # NoFiling => row.flag = FlagOf(row.total)

C21_Step ==
    /\ ev'.op = "upsert" =>
           LET row == sess'[ev'.r].filings[ev'.fid].row
           IN row.total = ev'.total /\ row.flag = FlagOf(ev'.total)
    /\ \A f \in FilingIds :
           filings'[f] # filings[f] =>
               \E t \in Runs : sess[t].filings[f].dirty /\ filings'[f] = sess[t].filings[f].row

\* C21: after any sequence of summary writes by feed passes and backfill
\* runs, every FilingF3X row has threshold_flag = (total_receipts is not null
\* and total_receipts >= the threshold), and its total_receipts is the total
\* of the latest write of its filing_id
C21_FlagRecomputed == []C21_FlagMatchesTotal /\ [][C21_Step]_vars

\* the feed pass stored the header's 40 (flag false), the backfill then
\* overwrote it with the API's 60 (flag true)
C21_Witness ==
    /\ tasks[<<1, "F3X">>].status = "ingested"
    /\ text[1].total = 40
    /\ filings[1] = [total |-> 60, flag |-> TRUE, meta |-> "backfill"]
    /\ ev.op = "bf_return"

\* the rows of filing f that exist anywhere in the store: the committed row,
\* or the pending inserts of the sessions
FilingRowCount(f) ==
    IF filings[f] # NoFiling THEN 1
    ELSE Cardinality({t \in Runs : sess[t].filings[f].dirty})

C22_Step ==
    \A f \in FilingIds :
        (ev'.op = "upsert" /\ ev'.fid = f) =>
            LET row == sess'[ev'.r].filings[f].row
            IN /\ row.total = ev'.total
               /\ row.flag = FlagOf(ev'.total)
               /\ row.meta = ev'.meta
               /\ FilingRowCount(f)' = 1
               /\ \A g \in FilingIds \ {f} :
                      /\ filings'[g] = filings[g]
                      /\ sess'[ev'.r].filings[g] = sess[ev'.r].filings[g]

\* C22: upsert_f3x on an absent filing_id inserts one row; on an existing
\* filing_id it overwrites every mutable field, the raw metadata included,
\* with the values it was given, and never makes a second row of the filing_id
C22_UpsertOverwritesAll == [][C22_Step]_vars

\* the step completes an update_filing_status or record_skipped_filing call
\* for key k, which the calling session sees no row of
SpeculativeDone(k) ==
    /\ ev'.op \in {"update", "skip"}
    /\ ev'.fid = k[1] /\ ev'.src = k[2]
    /\ GetTask(sess, ev'.r, k) = NoRow

C23_Step ==
    \A k \in Keys : SpeculativeDone(k) =>
        /\ ~ev'.raised
        /\ AllTasks' = AllTasks
        /\ AllEvents' = AllEvents

\* C23: update_filing_status and record_skipped_filing called for a
\* (filing_id, source) that has no task row do not raise, create no row and
\* change no other row
C23_MissingRowNoOp == [][C23_Step]_vars

\* a status update for a key without a row, while another key has one
C23_Witness ==
    /\ ev.op = "update"
    /\ GetTask(sess, ev.r, <<ev.fid, ev.src>>) = NoRow
    /\ \E k \in Keys : GetTask(sess, ev.r, k) # NoRow

\* the same for record_skipped_filing, while another session holds an
\* uncommitted claim of the key
C23_WitnessSkip ==
    /\ ev.op = "skip"
    /\ GetTask(sess, ev.r, <<ev.fid, ev.src>>) = NoRow
    /\ TaskLocked(sess, ev.r, <<ev.fid, ev.src>>)

\* the moves of the task lifecycle, the reset apart
AllowedMoves ==
    {<<"absent", "claimed">>, <<"claimed", "downloading">>,
     <<"downloading", "downloaded">>, <<"downloaded", "parsing">>,
     <<"parsing", "ingested">>, <<"downloading", "failed">>,
     <<"parsing", "failed">>, <<"downloading", "skipped">>}

\* every status of trail, written in order on a task that had status old,
\* is an allowed move from the one before it
TrailFrom(old, trail) ==
    \A i \in 1..Len(trail) :
        <<IF i = 1 THEN old ELSE trail[i - 1], trail[i]>> \in AllowedMoves

C24_StepOf(srcs) ==
    /\ \A k \in FilingIds \X srcs :
           (ev'.trail # <<>> /\ ev'.fid = k[1] /\ ev'.src = k[2]) =>
               TrailFrom(GetTask(sess, ev'.r, k).status, ev'.trail)
    /\ \A t \in Runs, k \in FilingIds \X srcs :
           (/\ sess'[t].tasks[k].dirty
            /\ sess'[t].tasks[k].row.status # GetTask(sess, t, k).status) =>
               \/ /\ ev'.trail # <<>> /\ ev'.r = t /\ <<ev'.fid, ev'.src>> = k
                  /\ sess'[t].tasks[k].row.status = ev'.trail[Len(ev'.trail)]
               \/ /\ ev'.op = "reset"
                  /\ GetTask(sess, t, k).status = "failed"
                  /\ sess'[t].tasks[k].row.status = "claimed"
    /\ \A k \in FilingIds \X srcs :
           tasks'[k].status # tasks[k].status =>
               \/ \E t \in Runs : sess[t].tasks[k].dirty /\ tasks'[k] = sess[t].tasks[k].row
               \/ ev'.op = "reset" /\ tasks[k].status = "failed"
                                   /\ tasks'[k].status = "claimed"

C24_Step == C24_StepOf({"F3X"} \cup IEFeedSet)

\* C24: in the F3X and the IE feed pass the statuses written to a task follow
\* claimed, downloading, downloaded, parsing, ingested in this order with no
\* stage left out; "failed" is entered only from "downloading" or "parsing",
\* "skipped" only from "downloading"; the only move backwards is the reset
\* from "failed" to "claimed"
C24_LifecycleOrder == [][C24_Step]_vars

\* the IngestionTask rows of key k in the store, committed or pending
TaskRows(k) ==
    {tasks[k]} \cup {sess[t].tasks[k].row : t \in {x \in Runs : sess[x].tasks[k].dirty}}

FailureRecorded(row) ==
    row.status = "failed" =>
        row.failed_step \in {"downloading", "parsing"} /\ row.error_message # NULL

C25_AllOf(srcs) == \A k \in FilingIds \X srcs : \A row \in TaskRows(k) : FailureRecorded(row)

\* a step that marks a task failed records the stage the task was in
C25_StepOf(srcs) ==
    \A k \in FilingIds \X srcs :
        (/\ ev'.trail # <<>> /\ ev'.fid = k[1] /\ ev'.src = k[2]
         /\ ev'.trail[Len(ev'.trail)] = "failed") =>
            sess'[ev'.r].tasks[k].row.failed_step = GetTask(sess, ev'.r, k).status

\* C25: in every pipeline a task with status "failed" has failed_step set to
\* the stage at which the failure occurred ("downloading" or "parsing") and
\* an error_message that is not null
C25_FailedStepRecorded ==
    []C25_AllOf({"F3X"} \cup IEFeedSet) /\ [][C25_StepOf({"F3X"} \cup IEFeedSet)]_vars

\* a write of session t to the task k in this step, other than a direct
\* update_filing_status call of a caller
PassOrResetWrites(t, k) ==
    /\ sess'[t].tasks[k].dirty
    /\ sess'[t].tasks[k] # sess[t].tasks[k]
    /\ ev'.op # "update"

C26_Step ==
    /\ \A t \in Runs, k \in Keys :
           PassOrResetWrites(t, k) =>
               LET old == GetTask(sess, t, k).status
                   new == sess'[t].tasks[k].row.status
               IN /\ old \in {"ingested", "skipped"} => new = old
                  /\ (old = "failed" /\ new # "failed") => ev'.op = "reset"
    /\ \A k \in Keys :
           tasks'[k] # tasks[k] =>
               \/ \E t \in Runs : sess[t].tasks[k].dirty /\ tasks'[k] = sess[t].tasks[k].row
               \/ ev'.op = "reset" /\ tasks[k].status = "failed"

\* C26: no feed pass, claim_filing call or reset_failed_tasks call changes the
\* status of a task that is "ingested" or "skipped", and a "failed" task
\* changes status only through reset_failed_tasks
C26_TerminalStatuses == [][C26_Step]_vars

\* the feed pass met the ingested task of its item and passed it over
C26_Witness ==
    /\ ev.op = "claim" /\ ev.r = "r1" /\ ~ev.res
    /\ tasks[<<ev.fid, ev.src>>].status = "ingested"

\* the same with a skipped task
C26_WitnessSkipped ==
    /\ ev.op = "claim" /\ ev.r = "r1" /\ ~ev.res
    /\ tasks[<<ev.fid, ev.src>>].status = "skipped"

\* a reset that found a failed task next to an ingested one
C26_WitnessReset ==
    /\ ev.op = "reset" /\ ev.r = "r1" /\ ev.line = 1
    /\ \E k \in Keys : tasks[k].status = "ingested"

\* the positions at which a run is about to make a network call: the
\* download of a .fec file, the fetch of the next feed, the next API page
NetworkPcs == {"download", "fetch", "bf_page"}

\* C27: no store transaction is open while a network call is in progress:
\* in a feed pass or backfill run the claim and every status transition of a
\* filing are committed before the next download or API request begins
C27_NoTransactionAcrossNetwork ==
    \A r \in Runs :
        (run[r].kind \in {"f3x", "ie", "bf3x", "bfe"} /\ run[r].pc \in NetworkPcs)
            => sess[r] = NewSession

\* the entry point of run r closes its session after a pass that returned
EntryCloses(r) == ev'.op = "end" /\ ev'.r = r /\ run[r].pc = "end" /\ ~run[r].raised

C28_Step ==
    \A r \in Runs : EntryCloses(r) =>
        /\ tasks' = CommittedTasks(sess, r)
        /\ events' = CommittedEvents(sess, r)
        /\ filings' = CommittedFilings(sess, r)

\* C28: every entry point that runs a feed pass commits its session after the
\* pass: every task claimed and every record written by a pass that returned
\* is in the store after the session is closed
C28_EntryPointCommits == [][C28_Step]_vars

\* the tasks run r has claimed in its session
ClaimedBy(r) == {k \in Keys : sess[r].tasks[k].dirty /\ sess[r].tasks[k].ins}

C29_EndOf(kinds) ==
    \A r \in Runs :
        (run[r].kind \in kinds /\ run[r].pc = "end") =>
            \A k \in ClaimedBy(r) :
                sess[r].tasks[k].row.status \in {"ingested", "failed", "skipped"}

\* C29: when a feed pass ends, by returning or by raising, every task the
\* pass claimed is "ingested", "failed" or "skipped"; none is left "claimed",
\* "downloading", "downloaded" or "parsing"
C29_NoTaskLeftInFlight == C29_EndOf({"f3x", "ie"})

\* the structured decode of the filing of task k raised in this step, and
\* the raw-line fallback can read the text
Tier1Only(k) ==
    /\ ev'.op = "tier1_error" /\ ev'.res
    /\ ev'.fid = k[1] /\ ev'.src = k[2]

C30_Step ==
    \A k \in Keys : Tier1Only(k) =>
        /\ GetTask(sess', ev'.r, k).status # "failed"
        /\ run'[ev'.r].pc = "event"

\* C30: in a feed pass an exception of the structured (tier-1) decode of a
\* filing does not fail the task: the heuristic fallback runs on the raw text,
\* and the task ends "failed" only if both tiers fail
C30_FallbackOnDecodeError == [][C30_Step]_vars

\* the tasks the pass of run r has claimed, and those of them that it has
\* not marked "failed" or "skipped"
PassClaimed(r) == {k \in ClaimedBy(r) : k[2] \in PassSources(run[r])}
PassLive(r) ==
    {k \in PassClaimed(r) : sess[r].tasks[k].row.status \notin {"failed", "skipped"}}

\* C31: in one feed pass with per-run cap N at most N filings are newly
\* claimed and downloaded, whatever number of them end "failed" or "skipped"
C31_ClaimedWithinCap ==
    \A r \in Runs :
        (run[r].kind \in {"f3x", "ie"} /\ run[r].pc = "end")
            => Cardinality(PassClaimed(r)) <= run[r].cap

\* C31, amended: the cap bounds the filings a pass has claimed and not marked
\* "failed" or "skipped"; a filing that fails is not counted, and the pass
\* goes on to claim and download another
C31_LiveWithinCap ==
    \A r \in Runs :
        (run[r].kind \in {"f3x", "ie"} /\ run[r].pc \notin {"idle", "done", "dead"})
            => Cardinality(PassLive(r)) <= run[r].cap

\* a pass has ended at its cap after claiming more filings than the cap
C31_Witness ==
    \E r \in Runs :
        /\ run[r].kind \in {"f3x", "ie"} /\ run[r].pc = "end" /\ ~run[r].raised
        /\ Cardinality(PassLive(r)) = run[r].cap
        /\ Cardinality(PassClaimed(r)) > run[r].cap

C32_Step ==
    \A ft \in {"3x", "e"} :
        (ev'.op = "get_job" /\ ev'.ft = ft) =>
            /\ jobs'[ft].rows = 1
            /\ ev'.res
            /\ jobs[ft].rows > 0 => jobs'[ft] = jobs[ft]

\* C32: get_or_create_backfill_job is idempotent: after any number of calls
\* for one (target_date, filing_type), sequential or concurrent, exactly one
\* row of the key exists, every call returns that row, and a call on an
\* existing row changes none of its fields
C32_GetOrCreateIdempotent == [][C32_Step]_vars

BFKinds == {"bf3x", "bfe"}

\* run r has finished its job as "completed"
BFCompleted(r) ==
    /\ run'[r] = Done
    /\ ev'.op = "bf_return" /\ ev'.r = r /\ ev'.res

C33_Step ==
    \A r \in Runs : (run[r].kind \in BFKinds /\ run'[r] # run[r]) =>
        \* the first request is for page 1
        /\ run[r].pc = "bf_start" /\ run'[r].pc = "bf_page" => run'[r].url = 1
        \* a response without results ends the job, any other is gone through
        /\ run[r].pc = "bf_page" =>
              \/ run'[r] = Done
              \/ /\ run'[r].pc = "bf_loop" /\ run'[r].feed # <<>>
                 /\ run'[r].url = run[r].url
        \* after the last result: the end if the page count is reached,
        \* or else the request of the next page
        /\ (run[r].pc = "bf_loop" /\ run[r].idx > Len(run[r].feed)) =>
              IF PagesOf(ev'.pages) <= run[r].url
              THEN BFCompleted(r)
              ELSE /\ run'[r].pc = "bf_page" /\ run'[r].url = run[r].url + 1
                   /\ ev'.op = "next_page"
        \* no page is requested again and none is passed over
        /\ (run[r].pc # "bf_start" /\ run'[r].kind \in BFKinds) =>
              /\ run'[r].url \in {run[r].url, run[r].url + 1}
              /\ (run'[r].pc = "bf_page" /\ run[r].pc # "bf_page")
                    => run'[r].url = run[r].url + 1

C33_Terminates ==
    \A r \in Runs : (run[r].kind \in BFKinds) ~> (run[r].pc = "done")

\* C33: a backfill run requests the pages 1, 2, 3, ... in strictly increasing
\* order, each at most once, and stops after the first page p whose response
\* has no results or reports pagination.pages <= p (1 when absent); it
\* terminates whenever the reported page count is finite
C33_Pagination == [][C33_Step]_vars /\ C33_Terminates

\* a run has requested the second page after a first page that reported more
\* pages, and has completed its job there
C33_Witness ==
    \E r \in Runs :
        /\ run[r].pc = "done" /\ ev.op = "bf_return" /\ ev.r = r /\ ev.res
        /\ ev.pages = MaxPages /\ MaxPages > 1
        /\ jobs[ev.ft].status = "completed"

\* the step of run r was the download and parse of filing f in
\* backfill_date_f3x, and the body could not be downloaded or parsed
BodyFailed(r, f) ==
    /\ run[r].kind = "bf3x" /\ run[r].pc = "download" /\ run[r].fid = f
    /\ ev'.r = r /\ ev'.body \in {"fail", "parse_fail"}

\* run r has upserted the summary of f with this total and counted it
UpsertedAs(r, f, total) ==
    /\ sess'[r].filings[f].dirty
    /\ sess'[r].filings[f].row.total = total
    /\ sess'[r].filings[f].row.flag = FlagOf(total)
    /\ sess'[r].filings[f].row.meta = "backfill"
    /\ run'[r].kind = "bf3x" /\ run'[r].pc = "bf_loop"
    /\ run'[r].new = run[r].new + 1
    /\ jobs' = jobs

C34_Step ==
    \A r \in Runs, f \in FilingIds :
        /\ BodyFailed(r, f) =>
              \/ UpsertedAs(r, f, ev'.api)
              \/ /\ run'[r] = [run[r] EXCEPT !.pc = "upsert_ins", !.total = ev'.api]
                 /\ jobs' = jobs
        /\ (run[r].kind = "bf3x" /\ run[r].pc = "upsert_ins" /\ run[r].fid = f
              /\ run'[r] # run[r])
              => UpsertedAs(r, f, run[r].total)

\* C34: in backfill_date_f3x, when the body of a newly claimed filing cannot
\* be downloaded or parsed, a summary row is still upserted for it with the
\* fields of the API (total from total_receipts), the filing counts toward
\* filings_found, and the job does not fail because of it
C34_ApiFallback == [][C34_Step]_vars

\* a job has completed having counted a filing whose body could not be
\* downloaded; the stored row has the total of the API
C34_Witness ==
    \E f \in FilingIds :
        /\ jobs["3x"].status = "completed" /\ jobs["3x"].found >= 1
        /\ dl[<<f, "BACKFILL">>] = 0 /\ text[f].total = UnknownTotal
        /\ filings[f].total = 40 /\ filings[f].meta = "backfill"

\* the step marked the task of the filing that the IE pass of run r was
\* working on "failed"
IEAttemptFailed(r) ==
    /\ run[r].kind = "ie" /\ run[r].pc \in {"parse", "event"}
    /\ ev'.r = r /\ ev'.trail = <<"failed">>

\* C35: if the task of a filing ends a feed pass "failed", the store holds no
\* itemized event inserted for that filing by that attempt: a failure
\* partway through a filing leaves no partial set of its events behind
C35_NoPartialEvents ==
    [][\A r \in Runs : IEAttemptFailed(r) =>
           \A e \in run[r].mine : ~sess'[r].events[e].dirty]_vars

C35_Step ==
    \A r \in Runs : IEAttemptFailed(r) =>
        /\ sess'[r].events = sess[r].events
        /\ GetTask(sess', r, <<run[r].fid, run[r].src>>).status = "failed"
        /\ \A e \in run[r].mine :
              /\ sess'[r].events[e].dirty
              /\ sess'[r].events[e].row.filing_id = run[r].fid
              /\ \E i \in 1..(run[r].lidx - 1) :
                     e = sha256_hex(run[r].fid, run[r].lines[i])

\* the events a session holds are stored under the hash of their filing and
\* raw line
C35_ContentAddressed ==
    \A r \in Runs, e \in EventIds :
        sess[r].events[e].dirty => sess[r].events[e].row.filing_id = e[1]

\* C35, amended: when an attempt fails partway through a filing, the events
\* it has inserted stay in the session next to the "failed" task, each under
\* the hash of the filing and of one of the raw lines gone through
C35_PartialEventsKept == [][C35_Step]_vars /\ []C35_ContentAddressed

\* a pass has ended with a "failed" task and, pending in the same session, an
\* event of the same filing that the failed attempt inserted
C35_Witness ==
    \E r \in Runs, k \in Keys, e \in EventIds :
        /\ run[r].kind = "ie" /\ run[r].pc = "end" /\ ~run[r].raised
        /\ sess[r].tasks[k].row.status = "failed"
        /\ e[1] = k[1] /\ sess[r].events[e].dirty
        /\ \A x \in Keys : (x[1] = k[1] /\ x # k) => sess[r].tasks[x] = Untouched

TiersOf(out) == {out[i].tier : i \in 1..Len(out)}

\* C36: for any filing text all records yielded by
\* extract_schedule_e_best_effort come from a single tier: once the
\* structured tier has yielded a record no fallback record is yielded, even
\* when the structured tier raises partway through its items
C36_SingleTier ==
    ev.op = "extract" => Cardinality(TiersOf(ev.out)) <= 1

\* C38: both parser tiers yield records of the same shape: every record of
\* the structured tier and every record of the fallback tier carries exactly
\* the same set of field names, each present and possibly null, so that the
\* caller reads every field without knowing which tier ran
C38_SameShape ==
    ev.op = "extract" =>
        \A i \in 1..Len(ev.out) :
            /\ FieldsRead \subseteq DOMAIN ev.out[i].fields
            /\ DOMAIN ev.out[i].fields = StructuredNames

\* a call has yielded a record of the structured tier and a record of the
\* fallback tier
C38_Witness ==
    /\ ev.op = "extract"
    /\ \E i, j \in 1..Len(ev.out) :
           /\ ev.out[i].tier = "structured" /\ ev.out[j].tier = "fallback"
           /\ ev.out[i].fields.candidate_id # NULL
           /\ ev.out[j].fields.amount # NULL /\ ev.out[j].fields.candidate_id = NULL

\* the tasks of source src that run r claimed and whose filing's summary it
\* has stored
StoredBy(r, src) ==
    {k \in ClaimedBy(r) : k[2] = src /\ sess[r].filings[k[1]].dirty}

\* a run_f3x pass has ended: the filings it claimed and stored are "ingested"
C37_Feed ==
    \A r \in Runs :
        (run[r].kind = "f3x" /\ run[r].pc = "end") =>
            \A k \in StoredBy(r, "F3X") : sess[r].tasks[k].row.status = "ingested"

\* a backfill run ends, committing: the filings it claimed and stored are
\* "ingested"
C37_Backfill ==
    \A r \in Runs :
        (run[r].kind = "bf3x" /\ ev'.op = "bf_return" /\ ev'.r = r) =>
            \A k \in StoredBy(r, "BACKFILL") : tasks'[k].status = "ingested"

\* C37: whenever a feed pass or a backfill run has stored the summary of a
\* filing it claimed, the task of that filing for that source has the status
\* "ingested" when the run ends
C37_StoredMeansIngested == []C37_Feed /\ [][C37_Backfill]_vars

\* any two calls that started a pass were made at least the cooldown apart
C39_Apart ==
    \A i, j \in 1..Len(cool.started) :
        i # j => \/ cool.started[j] - cool.started[i] >= INGESTION_COOLDOWN_MINUTES
                 \/ cool.started[i] - cool.started[j] >= INGESTION_COOLDOWN_MINUTES

\* a call that returns True has started a pass, any other has started none
\* and has left the cooldown time alone
C39_Step ==
    /\ cool'.started # cool.started => (ev'.op = "maybe_run" /\ ev'.res)
    /\ ev'.op = "maybe_run" =>
          IF ev'.res
          THEN cool'.started = Append(cool.started, cool.now[ev'.r])
          ELSE cool'.started = cool.started /\ cool'.last = cool.last

\* C39: within one process, under any interleaving of concurrent calls of
\* _maybe_run_ingestion, any two calls that return True (and so start a
\* background pass) have request times at least INGESTION_COOLDOWN_MINUTES
\* apart; every other call returns False and starts no pass
C39_Cooldown == []C39_Apart /\ [][C39_Step]_vars

\* two calls have started a pass, and a call made in between, while another
\* thread was inside the function, was refused
C39_Witness ==
    /\ Len(cool.started) = 2
    /\ ev.op = "maybe_run" /\ ~ev.res
    /\ \E t \in Threads : t # ev.r /\ cool.pc[t] # "idle"

\* what an iteration found: new F3X filings (none when the pass raised) and
\* new IE filings
FoundF3X(arg) == IF arg[3].raised THEN 0 ELSE arg[3].new
FoundIE(arg) == arg[4].filings

\* an iteration within the runtime limit has just run
IterationRan == ev.op = "iteration" /\ ~ev.arg[1]

C40_Step ==
    \A before \in {loop} :
        (IterationRan' /\ before.pc = "loop") =>
            LET arg == ev'.arg
                none == FoundF3X(arg) = 0 /\ FoundIE(arg) = 0
                full == FoundF3X(arg) >= arg[2] \/ FoundIE(arg) >= arg[2]
            IN  /\ loop'.pc \in {"loop", "alert"}
                /\ none => loop'.pc = "alert"
                /\ loop'.pc = "loop" => full /\ ~none

\* C40: the loop of the ingest job ends normally: an iteration that found no
\* new F3X filing and no new IE filing leaves the loop, an iteration is
\* followed by another one only after a full batch, there are never more
\* than MAX_ITERATIONS iterations, and the job then goes on to the alert
\* step (no exception leaves run_job)
C40_LoopEndsNormally ==
    /\ [](loop.iteration <= MAX_ITERATIONS /\ loop.pc # "TypeError")
    /\ [][C40_Step]_vars

====
